---- MODULE Spec2Model ----
(***************************************************************************)
(* Model of the arena-backed ordered tree (src/types/mod.rs, Tree<T>) and  *)
(* of the snailfish-number reducer built on it (src/puzzles/day_18.rs).    *)
(*                                                                         *)
(* Rust indices are 0-based.  The slot vector `nodes` and the cursor `pos` *)
(* of the parser keep their 0-based indices; a child vector is a TLA+      *)
(* sequence, so a child index i of the source is i + 1 here.               *)
(***************************************************************************)
EXTENDS Integers, Sequences, FiniteSets, TLC

(***************************************************************************)
(* Option<T>                                                               *)
(***************************************************************************)
None == <<>>
Some(x) == <<x>>
Unwrap(o) == o[1]

Min(S) == CHOOSE x \in S : \A y \in S : x <= y

(***************************************************************************)
(* Bounds of the model and program constants                               *)
(***************************************************************************)
\* most leaves of an input line
MaxLineLeaves == 6
\* most leaves of the two lines of a sum, taken together
MaxSumLeaves == 8
\* most adjacent leaves of a run's input written with the low digit
MaxLowRun == 1
\* most calls of reduce_number in a run
MaxReduceCalls == 2
\* Tree::new allocates 64 empty slots
InitialCapacity == 64
\* the depth at which find_nested_pair_rec reports a nested child
ExplodeDepth == 4
\* find_big_pair_rec splits a number greater than 9
SplitAbove == 9
\* literals are u8
U8 == 256

(***************************************************************************)
(* enum NumberType { Number(u8), Nested }                                  *)
(***************************************************************************)
Number(n) == [tag |-> "Number", n |-> n]
Nested == [tag |-> "Nested"]
IsNumber(d) == d.tag = "Number"

(***************************************************************************)
(* struct TreeNode<T>, struct Tree<T>                                      *)
(***************************************************************************)
TreeNode(id, data, parent) ==
    [id |-> id, data |-> data, parent |-> parent, children |-> <<>>]

\* TreeNode::find_child: the index of the first child equal to node_id
find_child(n, node_id) ==
    LET hits == {i \in 1..Len(n.children) : n.children[i] = node_id}
    IN  IF hits = {} THEN None ELSE Some(Min(hits))

TreeNew ==
    [root |-> None,
     nodes |-> [i \in 0..(InitialCapacity - 1) |-> None],
     node_positions |-> <<>>,
     id_tracker |-> 0]

\* the ids node() accepts without panicking: the keys of node_positions
Live(t) == DOMAIN t.node_positions

\* Tree::node / Tree::node_mut: the slot the id is mapped to
node(t, id) == t.nodes[t.node_positions[id]]

\* node and node_mut panic: HashMap's Index on a missing key
NodePanics(t, id) == id \notin Live(t)

\* Tree::node_data
node_data(t, id) == IF node(t, id) = None THEN None ELSE Some(Unwrap(node(t, id)).data)

\* a write through the reference node_mut(id).unwrap() hands out
SetNode(t, id, n) == [t EXCEPT !.nodes[t.node_positions[id]] = Some(n)]

\* as find_first_open_slot, but hands out the last slot when none is open
find_first_open_slot_NoResize(t) ==
    LET size == Cardinality(DOMAIN t.nodes)
        open == {i \in DOMAIN t.nodes : t.nodes[i] = None}
    IN  [tree |-> t, pos |-> IF open # {} THEN Min(open) ELSE size - 1]

find_first_open_slot(t) ==
    LET size == Cardinality(DOMAIN t.nodes)
        open == {i \in DOMAIN t.nodes : t.nodes[i] = None}
    IN  IF open # {}
        THEN [tree |-> t, pos |-> Min(open)]
        ELSE [tree |-> [t EXCEPT !.nodes =
                            [i \in 0..(2 * size - 1) |->
                                IF i < size THEN t.nodes[i] ELSE None]],
              pos |-> size]

\* the first half of insert: add and track the new node
AddAndTrack(t, data, parent) ==
    LET id == t.id_tracker
        n == TreeNode(id, data, parent)
        slot == find_first_open_slot(t)
    IN  [slot.tree EXCEPT !.nodes[slot.pos] = Some(n),
                          !.node_positions = (id :> slot.pos) @@ @,
                          !.id_tracker = @ + 1]

\* insert panics: node_mut on a parent id that is no key of node_positions,
\* the new node's own id being one by then
InsertPanics(t, parent) ==
    parent # None /\ Unwrap(parent) \notin Live(AddAndTrack(t, Nested, parent))

\* as insert, but leaves id_tracker where it was
insert_NoAdvance(t, data, parent) ==
    LET id == t.id_tracker
        t1 == [AddAndTrack(t, data, parent) EXCEPT !.id_tracker = id]
        t2 == IF parent # None
              THEN LET parent_node == Unwrap(node(t1, Unwrap(parent)))
                   IN  SetNode(t1, Unwrap(parent),
                               [parent_node EXCEPT !.children = Append(@, id)])
              ELSE [t1 EXCEPT !.root = Some(id)]
    IN  [tree |-> t2, id |-> id]

insert(t, data, parent) ==
    LET id == t.id_tracker
        t1 == AddAndTrack(t, data, parent)
        t2 == IF parent # None
              THEN LET parent_node == Unwrap(node(t1, Unwrap(parent)))
                   IN  SetNode(t1, Unwrap(parent),
                               [parent_node EXCEPT !.children = Append(@, id)])
              ELSE [t1 EXCEPT !.root = Some(id)]
    IN  [tree |-> t2, id |-> id]

\* Vec::remove(i)
VecRemove(v, i) == [k \in 1..(Len(v) - 1) |-> IF k < i THEN v[k] ELSE v[k + 1]]

\* remove panics: node or node_mut on an id that is no key of node_positions,
\* or unwrap on a parent that does not list the node
RemovePanics(t, node_id) ==
    \/ node_id \notin Live(t)
    \/ /\ node(t, node_id) # None
       /\ Unwrap(node(t, node_id)).parent # None
       /\ LET parent_id == Unwrap(Unwrap(node(t, node_id)).parent)
          IN  \/ parent_id \notin Live(t)
              \/ node(t, parent_id) = None
              \/ find_child(Unwrap(node(t, parent_id)), node_id) = None

\* as remove, but leaves the parent's children as they were
remove_NoUnhook(t, node_id) ==
    IF node(t, node_id) # None
    THEN [t EXCEPT !.node_positions = [k \in (DOMAIN @) \ {node_id} |-> @[k]],
                   !.nodes[t.node_positions[node_id]] = None]
    ELSE t

remove(t, node_id) ==
    IF node(t, node_id) # None
    THEN LET n == Unwrap(node(t, node_id))
             t1 == IF n.parent # None
                   THEN LET parent_id == Unwrap(n.parent)
                            parent == Unwrap(node(t, parent_id))
                            i == Unwrap(find_child(parent, node_id))
                        IN  SetNode(t, parent_id,
                                    [parent EXCEPT !.children = VecRemove(@, i)])
                   ELSE t
             pos == t1.node_positions[node_id]
         IN  [t1 EXCEPT !.node_positions =
                            [k \in (DOMAIN @) \ {node_id} |-> @[k]],
                        !.nodes[pos] = None]
    ELSE t

RECURSIVE left_neighbor_node(_, _)
left_neighbor_node(t, node_id) ==
    IF node(t, node_id) # None
    THEN LET n == Unwrap(node(t, node_id))
         IN  IF n.parent # None
             THEN LET parent_id == Unwrap(n.parent)
                      parent == Unwrap(node(t, parent_id))
                      i == Unwrap(find_child(parent, node_id))
                  IN  IF i > 1
                      THEN Some(parent.children[i - 1])
                      ELSE left_neighbor_node(t, parent_id)
             ELSE None
    ELSE None

\* the while loop of left_neighbor_leaf: down the rightmost children
RECURSIVE RightmostLeaf(_, _)
RightmostLeaf(t, id) ==
    LET n == Unwrap(node(t, id))
    IN  IF n.children # <<>>
        THEN RightmostLeaf(t, n.children[Len(n.children)])
        ELSE id

\* as left_neighbor_leaf, but stops at the neighbouring node without descending
left_neighbor_leaf_NoDescent(t, node_id) == left_neighbor_node(t, node_id)

left_neighbor_leaf(t, node_id) ==
    LET neighbor == left_neighbor_node(t, node_id)
    IN  IF neighbor # None THEN Some(RightmostLeaf(t, Unwrap(neighbor))) ELSE None

RECURSIVE right_neighbor_node(_, _)
right_neighbor_node(t, node_id) ==
    IF node(t, node_id) # None
    THEN LET n == Unwrap(node(t, node_id))
         IN  IF n.parent # None
             THEN LET parent_id == Unwrap(n.parent)
                      parent == Unwrap(node(t, parent_id))
                      i == Unwrap(find_child(parent, node_id))
                  IN  IF i < Len(parent.children)
                      THEN Some(parent.children[i + 1])
                      ELSE right_neighbor_node(t, parent_id)
             ELSE None
    ELSE None

\* the while loop of right_neighbor_leaf: down the leftmost children
RECURSIVE LeftmostLeaf(_, _)
LeftmostLeaf(t, id) ==
    LET n == Unwrap(node(t, id))
    IN  IF n.children # <<>>
        THEN LeftmostLeaf(t, n.children[1])
        ELSE id

\* as right_neighbor_leaf, but stops at the neighbouring node without descending
right_neighbor_leaf_NoDescent(t, node_id) == right_neighbor_node(t, node_id)

right_neighbor_leaf(t, node_id) ==
    LET neighbor == right_neighbor_node(t, node_id)
    IN  IF neighbor # None THEN Some(LeftmostLeaf(t, Unwrap(neighbor))) ELSE None

RECURSIVE consume_tree(_, _, _, _)
RECURSIVE ConsumeChildren(_, _, _, _, _)
\* the for loop of consume_tree over the children from index k on
ConsumeChildren(self, tree, children, k, new_id) ==
    IF k > Len(children)
    THEN self
    ELSE ConsumeChildren(consume_tree(self, tree, children[k], new_id),
                         tree, children, k + 1, new_id)

consume_tree(self, tree, from_node, into_node) ==
    IF node(tree, from_node) # None
    THEN LET n == Unwrap(node(tree, from_node))
             ins == insert(self, n.data, Some(into_node))
         IN  ConsumeChildren(ins.tree, tree, n.children, 1, ins.id)
    ELSE self

\* as combine_trees, but consumes tree_b before tree_a
combine_trees_RightFirst(tree_a, tree_b, root) ==
    LET ins == insert(TreeNew, root, None)
        t1 == IF tree_b.root # None
              THEN consume_tree(ins.tree, tree_b, Unwrap(tree_b.root), ins.id)
              ELSE ins.tree
        t2 == IF tree_a.root # None
              THEN consume_tree(t1, tree_a, Unwrap(tree_a.root), ins.id)
              ELSE t1
    IN  t2

combine_trees(tree_a, tree_b, root) ==
    LET ins == insert(TreeNew, root, None)
        t1 == IF tree_a.root # None
              THEN consume_tree(ins.tree, tree_a, Unwrap(tree_a.root), ins.id)
              ELSE ins.tree
        t2 == IF tree_b.root # None
              THEN consume_tree(t1, tree_b, Unwrap(tree_b.root), ins.id)
              ELSE t1
    IN  t2

(***************************************************************************)
(* SnailfishNumber (day_18.rs).  A &str is a sequence of characters.       *)
(***************************************************************************)
AsciiDigits == {"0", "1", "2", "3", "4", "5", "6", "7", "8", "9"}

\* char::to_digit(10)
to_digit(c) ==
    CASE c = "0" -> 0 [] c = "1" -> 1 [] c = "2" -> 2 [] c = "3" -> 3
      [] c = "4" -> 4 [] c = "5" -> 5 [] c = "6" -> 6 [] c = "7" -> 7
      [] c = "8" -> 8 [] c = "9" -> 9

\* From<u32> for NumberType: n as u8
FromU32(n) == Number(n % U8)

\* NumberType::number is defined on Number only (unreachable!() otherwise)
number(d) == d.n

RECURSIVE parse_number(_, _, _, _)
RECURSIVE ParseLoop(_, _, _, _)
\* the while loop of parse_number; s[pos + 1] is s.chars().nth(pos)
ParseLoop(tree, s, node_id, pos) ==
    IF ~(pos < Len(s))
    THEN [tree |-> tree, pos |-> pos]
    ELSE LET c == s[pos + 1]
         IN  CASE c = "," -> ParseLoop(tree, s, node_id, pos + 1)
               [] c = "]" -> [tree |-> tree, pos |-> pos + 1]
               [] c \in AsciiDigits ->
                    ParseLoop(insert(tree, FromU32(to_digit(c)), Some(node_id)).tree,
                              s, node_id, pos + 1)
               [] c = "[" ->
                    LET ins == insert(tree, Nested, Some(node_id))
                        sub == parse_number(ins.tree, s, ins.id, pos)
                    IN  ParseLoop(sub.tree, s, node_id, sub.pos)

parse_number(tree, s, node_id, pos) == ParseLoop(tree, s, node_id, pos + 1)

\* impl From<&str> for SnailfishNumber
FromStr(s) ==
    LET ins == insert(TreeNew, Nested, None)
    IN  parse_number(ins.tree, s, ins.id, 0).tree

RECURSIVE find_nested_pair_rec(_, _, _)
RECURSIVE NestedPairLoop(_, _, _, _)
\* the for loop of find_nested_pair_rec over the children from index k on
NestedPairLoop(t, depth, children, k) ==
    IF k > Len(children)
    THEN None
    ELSE LET child_id == children[k]
             child_node == Unwrap(node(t, child_id))
         IN  IF child_node.data = Nested
             THEN IF depth = ExplodeDepth
                  THEN Some(child_id)
                  ELSE LET found == find_nested_pair_rec(t, depth + 1, child_id)
                       IN  IF found # None
                           THEN found
                           ELSE NestedPairLoop(t, depth, children, k + 1)
             ELSE NestedPairLoop(t, depth, children, k + 1)

find_nested_pair_rec(t, depth, node_id) ==
    NestedPairLoop(t, depth, Unwrap(node(t, node_id)).children, 1)

\* as find_nested_pair, but counts the root's children as depth 0
find_nested_pair_FromZero(t) ==
    IF t.root # None THEN find_nested_pair_rec(t, 0, Unwrap(t.root)) ELSE None

find_nested_pair(t) ==
    IF t.root # None THEN find_nested_pair_rec(t, 1, Unwrap(t.root)) ELSE None

\* explode reaches unreachable!(): bind_vec_deref! on other than two children,
\* or number() on a Nested child or neighbour
ExplodePanics(t, node_id) ==
    LET n == Unwrap(node(t, node_id))
    IN  \/ Len(n.children) # 2
        \/ \E i \in 1..2 : ~IsNumber(Unwrap(node_data(t, n.children[i])))
        \/ LET ln == left_neighbor_leaf(t, n.children[1])
           IN  ln # None /\ ~IsNumber(Unwrap(node_data(t, Unwrap(ln))))
        \/ LET rn == right_neighbor_leaf(t, n.children[2])
           IN  rn # None /\ ~IsNumber(Unwrap(node_data(t, Unwrap(rn))))

\* as ExplodeOverflows, but for numbers of four bits: an addition exceeds 15
ExplodeOverflows_FourBits(t, node_id) ==
    LET n == Unwrap(node(t, node_id))
        left == number(Unwrap(node_data(t, n.children[1])))
        right == number(Unwrap(node_data(t, n.children[2])))
        ln == left_neighbor_leaf(t, n.children[1])
        rn == right_neighbor_leaf(t, n.children[2])
    IN  \/ ln # None /\ number(Unwrap(node_data(t, Unwrap(ln)))) + left >= 16
        \/ rn # None /\ number(Unwrap(node_data(t, Unwrap(rn)))) + right >= 16

\* a u8 addition of explode exceeds 255
ExplodeOverflows(t, node_id) ==
    LET n == Unwrap(node(t, node_id))
        left == number(Unwrap(node_data(t, n.children[1])))
        right == number(Unwrap(node_data(t, n.children[2])))
        ln == left_neighbor_leaf(t, n.children[1])
        rn == right_neighbor_leaf(t, n.children[2])
    IN  \/ ln # None /\ number(Unwrap(node_data(t, Unwrap(ln)))) + left >= U8
        \/ \* the right addition reads the neighbour after the left one was written
           rn # None /\ number(Unwrap(node_data(t, Unwrap(rn)))) + right >= U8

\* as explode, but carries the right element left and the left element right
explode_SwappedCarry(t, node_id) ==
    LET n == Unwrap(node(t, node_id))
        left_id == n.children[1]
        right_id == n.children[2]
        left == number(Unwrap(node_data(t, left_id)))
        right == number(Unwrap(node_data(t, right_id)))
        ln == left_neighbor_leaf(t, left_id)
        t1 == IF ln # None
              THEN LET m == Unwrap(node(t, Unwrap(ln)))
                   IN  SetNode(t, Unwrap(ln),
                               [m EXCEPT !.data = Number((number(m.data) + right) % U8)])
              ELSE t
        rn == right_neighbor_leaf(t1, right_id)
        t2 == IF rn # None
              THEN LET m == Unwrap(node(t1, Unwrap(rn)))
                   IN  SetNode(t1, Unwrap(rn),
                               [m EXCEPT !.data = Number((number(m.data) + left) % U8)])
              ELSE t1
        t3 == remove(t2, left_id)
        t4 == remove(t3, right_id)
    IN  SetNode(t4, node_id, [Unwrap(node(t4, node_id)) EXCEPT !.data = Number(0)])

explode(t, node_id) ==
    LET n == Unwrap(node(t, node_id))
        left_id == n.children[1]
        right_id == n.children[2]
        left == number(Unwrap(node_data(t, left_id)))
        right == number(Unwrap(node_data(t, right_id)))
        ln == left_neighbor_leaf(t, left_id)
        t1 == IF ln # None
              THEN LET m == Unwrap(node(t, Unwrap(ln)))
                   IN  SetNode(t, Unwrap(ln),
                               [m EXCEPT !.data = Number((number(m.data) + left) % U8)])
              ELSE t
        rn == right_neighbor_leaf(t1, right_id)
        t2 == IF rn # None
              THEN LET m == Unwrap(node(t1, Unwrap(rn)))
                   IN  SetNode(t1, Unwrap(rn),
                               [m EXCEPT !.data = Number((number(m.data) + right) % U8)])
              ELSE t1
        t3 == remove(t2, left_id)
        t4 == remove(t3, right_id)
    IN  SetNode(t4, node_id, [Unwrap(node(t4, node_id)) EXCEPT !.data = Number(0)])

RECURSIVE find_big_pair_rec(_, _)
RECURSIVE BigPairLoop(_, _, _)
\* the for loop of find_big_pair_rec over the children from index k on
BigPairLoop(t, children, k) ==
    IF k > Len(children)
    THEN None
    ELSE LET found == find_big_pair_rec(t, children[k])
         IN  IF found # None THEN found ELSE BigPairLoop(t, children, k + 1)

\* as find_big_pair_rec, but takes a number of 9 for a big one
find_big_pair_rec_FromNine(t, node_id) ==
    LET n == Unwrap(node(t, node_id))
    IN  IF IsNumber(n.data)
        THEN IF number(n.data) >= SplitAbove THEN Some(node_id) ELSE None
        ELSE BigPairLoop(t, n.children, 1)

find_big_pair_rec(t, node_id) ==
    LET n == Unwrap(node(t, node_id))
    IN  IF IsNumber(n.data)
        THEN IF number(n.data) > SplitAbove THEN Some(node_id) ELSE None
        ELSE BigPairLoop(t, n.children, 1)

find_big_pair(t) ==
    IF t.root # None THEN find_big_pair_rec(t, Unwrap(t.root)) ELSE None

\* the u8 addition n + 1 of split exceeds 255
SplitOverflows(t, node_id) == number(Unwrap(node(t, node_id)).data) + 1 >= U8

\* as split, but inserts the half rounded down only
split_OneChild(t, node_id) ==
    LET m == Unwrap(node(t, node_id))
        n == number(m.data)
        t1 == SetNode(t, node_id, [m EXCEPT !.data = Nested])
    IN  insert(t1, Number(n \div 2), Some(node_id)).tree

\* as split, but inserts the half rounded up first
split_CeilFirst(t, node_id) ==
    LET m == Unwrap(node(t, node_id))
        n == number(m.data)
        t1 == SetNode(t, node_id, [m EXCEPT !.data = Nested])
        t2 == insert(t1, Number(((n + 1) % U8) \div 2), Some(node_id)).tree
    IN  insert(t2, Number(n \div 2), Some(node_id)).tree

split(t, node_id) ==
    LET m == Unwrap(node(t, node_id))
        n == number(m.data)
        t1 == SetNode(t, node_id, [m EXCEPT !.data = Nested])
        t2 == insert(t1, Number(n \div 2), Some(node_id)).tree
    IN  insert(t2, Number(((n + 1) % U8) \div 2), Some(node_id)).tree

\* magnitude_rec and magnitude reach unreachable!(): bind_vec_deref! on a
\* Nested node (or the root) with other than two children
RECURSIVE MagnitudePanicsRec(_, _)
MagnitudePanicsRec(t, node_id) ==
    LET n == Unwrap(node(t, node_id))
    IN  /\ ~IsNumber(n.data)
        /\ \/ Len(n.children) # 2
           \/ \E i \in 1..2 : MagnitudePanicsRec(t, n.children[i])

MagnitudePanics(t) ==
    \/ t.root = None
    \/ LET n == Unwrap(node(t, Unwrap(t.root)))
       IN  \/ Len(n.children) # 2
           \/ \E i \in 1..2 : MagnitudePanicsRec(t, n.children[i])

\* as magnitude_rec, but weighs the left element by 2 and the right one by 3
RECURSIVE magnitude_rec_SwappedWeights(_, _)
magnitude_rec_SwappedWeights(t, node_id) ==
    LET n == Unwrap(node(t, node_id))
    IN  IF IsNumber(n.data)
        THEN number(n.data)
        ELSE (2 * magnitude_rec_SwappedWeights(t, n.children[1]))
                + (3 * magnitude_rec_SwappedWeights(t, n.children[2]))

RECURSIVE magnitude_rec(_, _)
magnitude_rec(t, node_id) ==
    LET n == Unwrap(node(t, node_id))
    IN  IF IsNumber(n.data)
        THEN number(n.data)
        ELSE (3 * magnitude_rec(t, n.children[1])) + (2 * magnitude_rec(t, n.children[2]))

\* the root is taken for a pair whatever its data
magnitude(t) ==
    LET n == Unwrap(node(t, Unwrap(t.root)))
    IN  (3 * magnitude_rec(t, n.children[1])) + (2 * magnitude_rec(t, n.children[2]))

\* u8::to_string: the decimal digits of n, the most significant first
DecimalDigits == <<"0", "1", "2", "3", "4", "5", "6", "7", "8", "9">>

RECURSIVE Decimal(_)
Decimal(n) ==
    IF n < 10
    THEN <<DecimalDigits[n + 1]>>
    ELSE Decimal(n \div 10) \o <<DecimalDigits[(n % 10) + 1]>>

\* [String]::join
RECURSIVE Join(_, _, _)
Join(strings, sep, k) ==
    IF k > Len(strings) THEN <<>>
    ELSE IF k = Len(strings) THEN strings[k]
    ELSE strings[k] \o sep \o Join(strings, sep, k + 1)

\* as to_string, but writes the children of a pair from the last to the first
RECURSIVE to_string_LastChildFirst(_, _)
to_string_LastChildFirst(t, node_id) ==
    IF node(t, node_id) = None
    THEN <<>>
    ELSE LET n == Unwrap(node(t, node_id))
         IN  IF IsNumber(n.data)
             THEN Decimal(n.data.n)
             ELSE <<"[">>
                    \o Join([k \in 1..Len(n.children) |->
                                to_string_LastChildFirst(
                                    t, n.children[Len(n.children) + 1 - k])],
                            <<",">>, 1)
                    \o <<"]">>

\* SnailfishNumber::to_string; node panics on an id that is not live, which
\* the children of a live node of these trees never are
RECURSIVE to_string(_, _)
to_string(t, node_id) ==
    IF node(t, node_id) = None
    THEN <<>>
    ELSE LET n == Unwrap(node(t, node_id))
         IN  IF IsNumber(n.data)
             THEN Decimal(n.data.n)
             ELSE <<"[">>
                    \o Join([k \in 1..Len(n.children) |-> to_string(t, n.children[k])],
                            <<",">>, 1)
                    \o <<"]">>

\* impl fmt::Display for SnailfishNumber
fmt(t) == IF t.root = None THEN <<>> ELSE to_string(t, Unwrap(t.root))

(***************************************************************************)
(* The packet decoder (day_16.rs).  A &[u8] is a sequence of bytes and     *)
(* data[i] of the source is data[i + 1] here.  The cursor c holds the two  *)
(* offsets the functions share through &mut, whether a panic has ended the *)
(* decoding, and a log of what the functions read and returned.            *)
(***************************************************************************)
\* the names of enum PacketType, by type id
PacketTypes == <<"Sum", "Product", "Minimum", "Maximum", "Literal", "Greater", "Less", "Equal">>

\* impl From<u8> for PacketType
PacketTypeFrom(x) == PacketTypes[x + 1]

\* enum PacketData
Literal(n) == [tag |-> "Literal", n |-> n]
Subpackets(subpackets) == [tag |-> "Subpackets", subpackets |-> subpackets]

\* struct Packet
Packet(version, type_id, length_type_id, data) ==
    [version |-> version, type_id |-> type_id,
     length_type_id |-> length_type_id, data |-> data]

NoLog == [grabs |-> <<>>, literals |-> <<>>, loops |-> <<>>, counts |-> <<>>, subs |-> <<>>,
          tops |-> <<>>]

Cursor(byte_offset, bit_offset) ==
    [byte_offset |-> byte_offset, bit_offset |-> bit_offset, panic |-> FALSE, log |-> NoLog]

\* (*byte_offset * 8) + *bit_offset
Pos(c) == (c.byte_offset * 8) + c.bit_offset

\* the body of grab_bit and of the first loop of grab_bits: read one bit, step
GrabStep(data, c) ==
    IF c.panic
    THEN [c |-> c, bit |-> 0]
    ELSE IF ~(c.byte_offset < Len(data))
    THEN \* data[*byte_offset] is out of bounds
         [c |-> [c EXCEPT !.panic = TRUE], bit |-> 0]
    ELSE LET offset == 7 - c.bit_offset
             mask == 2 ^ offset
             bit == (data[c.byte_offset + 1] \div mask) % 2
         IN  [c |-> IF c.bit_offset + 1 = 8
                    THEN [c EXCEPT !.byte_offset = @ + 1, !.bit_offset = 0]
                    ELSE [c EXCEPT !.bit_offset = @ + 1],
              bit |-> bit]

\* what a read that returned leaves in the log
Grabbed(c0, c1, n, v) ==
    IF c1.panic
    THEN c1
    ELSE [c1 EXCEPT !.log.grabs =
             Append(@, [n |-> n, from |-> Pos(c0), to |-> Pos(c1),
                        bit_offset |-> c1.bit_offset, value |-> v])]

grab_bit(data, c) ==
    LET r == GrabStep(data, c)
    IN  [c |-> Grabbed(c, r.c, 1, r.bit), v |-> r.bit]

\* the first loop of grab_bits: bits[0..N] in reading order
RECURSIVE GrabLoop(_, _, _, _)
GrabLoop(data, c, N, bits) ==
    IF Len(bits) = N \/ c.panic
    THEN [c |-> c, bits |-> bits]
    ELSE LET r == GrabStep(data, c)
         IN  GrabLoop(data, r.c, N, Append(bits, r.bit))

\* the second loop of grab_bits: n |= b << i over bits.iter().rev().enumerate()
RECURSIVE CombineBits(_, _)
CombineBits(bits, i) ==
    IF i = Len(bits)
    THEN 0
    ELSE (bits[Len(bits) - i] * (2 ^ i)) + CombineBits(bits, i + 1)

\* as grab_bits, but combines the bits in reading order, the first bit lowest
grab_bits_FirstBitLowest(data, c, N) ==
    LET r == GrabLoop(data, c, N, <<>>)
        n == CombineBits([i \in 1..Len(r.bits) |-> r.bits[Len(r.bits) + 1 - i]], 0)
    IN  [c |-> Grabbed(c, r.c, N, n), v |-> n]

grab_bits(data, c, N) ==
    LET r == GrabLoop(data, c, N, <<>>)
        n == CombineBits(r.bits, 0)
    IN  [c |-> Grabbed(c, r.c, N, n), v |-> n]

parse_packet_header(data, c) ==
    LET version == grab_bits(data, c, 3)
        type_id == grab_bits(data, version.c, 3)
        length_type_id == IF type_id.v = 4
                          THEN [c |-> type_id.c, v |-> 0]
                          ELSE grab_bit(data, type_id.c)
    IN  [c |-> length_type_id.c, version |-> version.v,
         type_id |-> PacketTypeFrom(type_id.v), length_type_id |-> length_type_id.v]

\* the while loop of parse_packet_literal: chunks until one without the flag 0x10
RECURSIVE LiteralLoop(_, _, _)
LiteralLoop(data, c, chunks) ==
    IF c.panic
    THEN [c |-> c, chunks |-> chunks]
    ELSE IF chunks = <<>> \/ (chunks[Len(chunks)] \div 16) % 2 = 1
    THEN LET chunk == grab_bits(data, c, 5)
         IN  LiteralLoop(data, chunk.c, Append(chunks, chunk.v))
    ELSE [c |-> c, chunks |-> chunks]

\* the for loop of parse_packet_literal: n |= (chunk & 0xF) << (byte * 4) over
\* chunks.iter().rev().enumerate(); the shift stays within u64 for the 16
\* chunks or fewer that the inputs hold
RECURSIVE LiteralValue(_, _)
LiteralValue(chunks, byte) ==
    IF byte = Len(chunks)
    THEN 0
    ELSE ((chunks[Len(chunks) - byte] % 16) * (2 ^ (byte * 4)))
            + LiteralValue(chunks, byte + 1)

\* as parse_packet_literal, but takes the first chunk for the lowest four bits
parse_packet_literal_FirstChunkLowest(data, c) ==
    LET r == LiteralLoop(data, c, <<>>)
        n == LiteralValue([i \in 1..Len(r.chunks) |-> r.chunks[Len(r.chunks) + 1 - i]], 0)
    IN  [c |-> IF r.c.panic THEN r.c
               ELSE [r.c EXCEPT !.log.literals =
                        Append(@, [from |-> Pos(c), to |-> Pos(r.c),
                                   chunks |-> r.chunks, value |-> n])],
         v |-> n]

parse_packet_literal(data, c) ==
    LET r == LiteralLoop(data, c, <<>>)
        n == LiteralValue(r.chunks, 0)
    IN  [c |-> IF r.c.panic THEN r.c
               ELSE [r.c EXCEPT !.log.literals =
                        Append(@, [from |-> Pos(c), to |-> Pos(r.c),
                                   chunks |-> r.chunks, value |-> n])],
         v |-> n]

\* length_type_id is one bit, so the unreachable!() arm is never taken
parse_packet_operator_length(data, length_type_id, c) ==
    IF length_type_id = 0 THEN grab_bits(data, c, 15) ELSE grab_bits(data, c, 11)

\* the Literal arm of the match on the packet type
LiteralData(literal) == [c |-> literal.c, data |-> Literal(literal.v)]

\* the end of the length type 0 arm: the subpackets collected, and what the
\* loop that finished leaves in the log
Looped(start, op_length, r) ==
    [c |-> IF r.c.panic
           THEN r.c
           ELSE [r.c EXCEPT !.log.loops =
                    Append(@, [start |-> Pos(start), length |-> op_length,
                               end |-> Pos(start) + op_length, at |-> Pos(r.c),
                               subpackets |-> Len(r.subpackets)])],
     data |-> Subpackets(r.subpackets)]

\* the end of the length type 1 arm: the subpackets collected, and what the
\* loop that finished leaves in the log
Counted(start, op_length, r) ==
    [c |-> IF r.c.panic
           THEN r.c
           ELSE [r.c EXCEPT !.log.counts =
                    Append(@, [start |-> Pos(start), count |-> op_length,
                               at |-> Pos(r.c), subpackets |-> r.subpackets])],
     data |-> Subpackets(r.subpackets)]

\* the Packet { .. } that parse_packet returns
Parsed(header, packet_data) ==
    [c |-> packet_data.c,
     packet |-> Packet(header.version, header.type_id, header.length_type_id,
                       packet_data.data)]

\* the Packet { .. } that parse_subpacket returns, and its entry in the log
Subparsed(c, parsed) ==
    [c |-> IF parsed.c.panic
           THEN parsed.c
           ELSE [parsed.c EXCEPT !.log.subs =
                    Append(@, [from |-> Pos(c), to |-> Pos(parsed.c),
                               packet |-> parsed.packet])],
     packet |-> parsed.packet]

RECURSIVE parse_subpacket(_, _)
RECURSIVE LengthLoop(_, _, _, _)
\* subpackets.push(subpacket), and the next test of the while loop
LengthPush(data, end, subpackets, subpacket) ==
    LengthLoop(data, subpacket.c, end, Append(subpackets, subpacket.packet))

\* the while loop of length type 0: subpackets until the cursor is at or past end
LengthLoop(data, c, end, subpackets) ==
    IF c.panic \/ ~(Pos(c) < end)
    THEN [c |-> c, subpackets |-> subpackets]
    ELSE LengthPush(data, end, subpackets, parse_subpacket(data, c))

RECURSIVE CountLoop(_, _, _, _)
\* as CountPush, but puts the subpacket before the ones collected so far
CountPush_NewestFirst(data, left, subpackets, subpacket) ==
    CountLoop(data, subpacket.c, left - 1, <<subpacket.packet>> \o subpackets)

\* subpackets.push(subpacket), and the next round of the for loop
CountPush(data, left, subpackets, subpacket) ==
    CountLoop(data, subpacket.c, left - 1, Append(subpackets, subpacket.packet))

\* the for loop of length type 1: op_length subpackets
CountLoop(data, c, left, subpackets) ==
    IF c.panic \/ left = 0
    THEN [c |-> c, subpackets |-> subpackets]
    ELSE CountPush(data, left, subpackets, parse_subpacket(data, c))

\* the operator arm of the match, after parse_packet_operator_length
OperatorData(data, length_type_id, op_length) ==
    IF length_type_id = 0
    THEN Looped(op_length.c, op_length.v,
                LengthLoop(data, op_length.c, Pos(op_length.c) + op_length.v, <<>>))
    ELSE Counted(op_length.c, op_length.v,
                 CountLoop(data, op_length.c, op_length.v, <<>>))

\* the match on the packet type, after parse_packet_header
PacketData(data, header) ==
    IF header.type_id = "Literal"
    THEN LiteralData(parse_packet_literal(data, header.c))
    ELSE OperatorData(data, header.length_type_id,
                      parse_packet_operator_length(data, header.length_type_id,
                                                   header.c))

\* the body of parse_subpacket and of parse_packet, after parse_packet_header
PacketBody(data, header) == Parsed(header, PacketData(data, header))

parse_subpacket(data, c) ==
    Subparsed(c, PacketBody(data, parse_packet_header(data, c)))

\* as SkipTrailingBits, but steps over the byte after the trailing bits too
SkipTrailingBits_TwoBytes(parsed) ==
    [parsed EXCEPT !.c = IF ~@.panic /\ @.bit_offset # 0
                         THEN [@ EXCEPT !.byte_offset = @ + 2, !.bit_offset = 0]
                         ELSE @]

\* "account for trailing bits"
SkipTrailingBits(parsed) ==
    [parsed EXCEPT !.c = IF ~@.panic /\ @.bit_offset # 0
                         THEN [@ EXCEPT !.byte_offset = @ + 1, !.bit_offset = 0]
                         ELSE @]

\* as parse_packet, but leaves the cursor where the packet ended
parse_packet_NoTrailingBits(data, c) ==
    PacketBody(data, parse_packet_header(data, c))

parse_packet(data, c) ==
    SkipTrailingBits(PacketBody(data, parse_packet_header(data, c)))

\* char::to_digit(16)
HexDigits == <<"0", "1", "2", "3", "4", "5", "6", "7",
               "8", "9", "A", "B", "C", "D", "E", "F">>

to_digit16(ch) == (CHOOSE i \in 1..16 : HexDigits[i] = ch) - 1

\* Day16::parse_transmission: two characters a byte, a last odd one its high half
parse_transmission(text) ==
    LET chars == text
        n_chars == Len(chars)
        pairs == [k \in 1..(n_chars \div 2) |->
                     (to_digit16(chars[(2 * k) - 1]) * 16) + to_digit16(chars[2 * k])]
    IN  IF n_chars % 2 = 1
        THEN Append(pairs, to_digit16(chars[n_chars]) * 16)
        ELSE pairs

(***************************************************************************)
(* Packet::evaluate.  What a call gives is the number it returns, or the   *)
(* panic that ends it; a panic in the evaluation of a subpacket ends the   *)
(* evaluation of the packet.  The numbers of the inputs stay far below the *)
(* 64 bits of a u64.                                                       *)
(***************************************************************************)
Value(n) == [panic |-> FALSE, v |-> n]
Panicked == [panic |-> TRUE, v |-> 0]

Max(S) == CHOOSE x \in S : \A y \in S : y <= x

\* Iterator::sum and Iterator::product over values[k..]
RECURSIVE SumOver(_, _)
SumOver(values, k) ==
    IF k > Len(values) THEN 0 ELSE values[k].v + SumOver(values, k + 1)

RECURSIVE ProductOver(_, _)
ProductOver(values, k) ==
    IF k > Len(values) THEN 1 ELSE values[k].v * ProductOver(values, k + 1)

\* as Fold, but the product of no values is 0
Fold_EmptyProductZero(type_id, values) ==
    IF \E i \in 1..Len(values) : values[i].panic
    THEN Panicked
    ELSE CASE type_id = "Sum" -> Value(SumOver(values, 1))
           [] type_id = "Product" ->
                  Value(IF values = <<>> THEN 0 ELSE ProductOver(values, 1))
           [] type_id = "Minimum" ->
                  IF values = <<>> THEN Panicked
                  ELSE Value(Min({values[i].v : i \in 1..Len(values)}))
           [] type_id = "Maximum" ->
                  IF values = <<>> THEN Panicked
                  ELSE Value(Max({values[i].v : i \in 1..Len(values)}))

\* as Fold, but Maximum gives the value of the last subpacket
Fold_MaximumIsLast(type_id, values) ==
    IF \E i \in 1..Len(values) : values[i].panic
    THEN Panicked
    ELSE CASE type_id = "Sum" -> Value(SumOver(values, 1))
           [] type_id = "Product" -> Value(ProductOver(values, 1))
           [] type_id = "Minimum" ->
                  IF values = <<>> THEN Panicked
                  ELSE Value(Min({values[i].v : i \in 1..Len(values)}))
           [] type_id = "Maximum" ->
                  IF values = <<>> THEN Panicked
                  ELSE Value(values[Len(values)].v)

\* the arms Sum, Product, Minimum and Maximum: values are what evaluate gave
\* for the subpackets, in order; min() and max() of no values are None, and
\* unwrap() panics on it
Fold(type_id, values) ==
    IF \E i \in 1..Len(values) : values[i].panic
    THEN Panicked
    ELSE CASE type_id = "Sum" -> Value(SumOver(values, 1))
           [] type_id = "Product" -> Value(ProductOver(values, 1))
           [] type_id = "Minimum" ->
                  IF values = <<>> THEN Panicked
                  ELSE Value(Min({values[i].v : i \in 1..Len(values)}))
           [] type_id = "Maximum" ->
                  IF values = <<>> THEN Panicked
                  ELSE Value(Max({values[i].v : i \in 1..Len(values)}))

\* as Compare, but compares the first two of two or more subpackets and gives
\* 0 for fewer
Compare_FirstTwo(type_id, values) ==
    IF Len(values) < 2
    THEN Value(0)
    ELSE IF values[1].panic \/ values[2].panic
    THEN Panicked
    ELSE CASE type_id = "Greater" -> Value(IF values[1].v > values[2].v THEN 1 ELSE 0)
           [] type_id = "Less" -> Value(IF values[1].v < values[2].v THEN 1 ELSE 0)
           [] type_id = "Equal" -> Value(IF values[1].v = values[2].v THEN 1 ELSE 0)

\* the arms Greater, Less and Equal: the slice pattern [packet_a, packet_b]
\* matches two subpackets, any other number reaches unreachable!()
Compare(type_id, values) ==
    IF Len(values) # 2
    THEN Panicked
    ELSE IF values[1].panic \/ values[2].panic
    THEN Panicked
    ELSE CASE type_id = "Greater" -> Value(IF values[1].v > values[2].v THEN 1 ELSE 0)
           [] type_id = "Less" -> Value(IF values[1].v < values[2].v THEN 1 ELSE 0)
           [] type_id = "Equal" -> Value(IF values[1].v = values[2].v THEN 1 ELSE 0)

\* Packet::literal and Packet::subpackets; the decoder gives a Literal packet
\* Literal data and every other packet Subpackets data
literal(packet) == packet.data.n
subpackets(packet) == packet.data.subpackets

RECURSIVE evaluate(_)
evaluate(packet) ==
    IF packet.type_id = "Literal"
    THEN Value(literal(packet))
    ELSE IF packet.type_id \in {"Sum", "Product", "Minimum", "Maximum"}
    THEN Fold(packet.type_id,
              [i \in 1..Len(subpackets(packet)) |-> evaluate(subpackets(packet)[i])])
    ELSE Compare(packet.type_id,
                 [i \in 1..Len(subpackets(packet)) |-> evaluate(subpackets(packet)[i])])

(***************************************************************************)
(* The inputs of a run: one or two lines of well-formed bracket notation   *)
(***************************************************************************)
\* the leaves of a run's input are written with HighDigit, but for one run of
\* at most MaxLowRun adjacent leaves (in reading order), written with LowDigit
HighDigit == "9"
LowDigit == "1"

\* the elements (a literal or a pair) with exactly n leaves, the first of them
\* being leaf number first of the input, where leaves lo..hi are the low ones
RECURSIVE Elem(_, _, _, _)
Elem(n, first, lo, hi) ==
    IF n = 1
    THEN {<<IF first \in lo..hi THEN LowDigit ELSE HighDigit>>}
    ELSE UNION {{<<"[">> \o l \o <<",">> \o r \o <<"]">> :
                    l \in Elem(i, first, lo, hi),
                    r \in Elem(n - i, first + i, lo, hi)} : i \in 1..(n - 1)}

\* the runs of low leaves in an input of n leaves: none, or lo..hi
LowRuns(n) ==
    {<<1, 0>>} \cup {r \in (1..n) \X (1..n) : r[1] <= r[2] /\ r[2] - r[1] < MaxLowRun}

\* one line (a pair), or the two lines of a sum
Inputs ==
    UNION {{<<a>> : a \in Elem(n, 1, r[1], r[2])} :
                <<n, r>> \in {q \in (2..MaxLineLeaves) \X LowRuns(MaxLineLeaves) :
                                 q[2][2] <= q[1]}}
    \cup UNION {{<<a, b>> : a \in Elem(q[1], 1, q[3][1], q[3][2]),
                            b \in Elem(q[2], q[1] + 1, q[3][1], q[3][2])} :
                    q \in {x \in (2..MaxLineLeaves) \X (2..MaxLineLeaves)
                                    \X LowRuns(MaxSumLeaves) :
                              /\ x[1] + x[2] <= MaxSumLeaves
                              /\ x[3][2] <= x[1] + x[2]}}

(***************************************************************************)
(* A run: Day18::new parses the lines; two numbers are added (combine,     *)
(* then reduce_number), or reduce_number runs on a parsed number; each     *)
(* iteration of the loop of reduce_number is a step.                       *)
(***************************************************************************)
VARIABLES
    input,      \* the lines handed to Day18::new
    numbers,    \* Day18.numbers
    sum,        \* the number reduce_number owns
    pc,         \* "new", "ready", "reduce", "returned", "aborted"
    origin,     \* "none", "add" or "parsed": where sum came from
    entry,      \* sum when the current call of reduce_number began
    calls,      \* calls of reduce_number so far
    iters,      \* iterations of the loop in the current call
    steps,      \* rule applications in the current call
    last,       \* the last iteration: the rule it chose, on which node, on which tree
    result,     \* what magnitude returned, once it was called
    shown,      \* what format!("{}", number) gave, once it was called, and for which
    arena,      \* a Tree<T> its owner calls insert, remove and node on
    apc,        \* "idle", "running" or "aborted": the state of the arena's owner
    issued,     \* the ids insert returned on arena, in order
    call,       \* the last call on arena: its arguments and the arena it met
    ncalls,     \* calls on arena so far
    rooted,     \* "none": no call yet; "rooted": the first call inserted a root and
                \* every later one named live ids only; "free": any other history
    sent,           \* the packets the transmission was written from
    hextext,        \* the hexadecimal text handed to Day16::new
    transmission,   \* the bytes parse_transmission made of it
    byte_offset,    \* the cursor of parse_packets
    bit_offset,
    packets,        \* the packets parse_packets has pushed
    dpc,            \* "idle", "new", "parsing", "done", "answered" or "aborted"
    dlog,           \* what the decoder read and returned so far
    answer          \* what evaluate gave in part_2, once it was called

snailVars == <<input, numbers, sum, pc, origin, entry, calls, iters, steps, last, result,
              shown>>

arenaVars == <<arena, apc, issued, call, ncalls, rooted>>

packetVars == <<sent, hextext, transmission, byte_offset, bit_offset, packets, dpc, dlog,
               answer>>

vars == <<snailVars, arenaVars, packetVars>>

NoShow == [number |-> 0, text |-> <<>>]

NoIteration == [rule |-> "none", node |-> None, before |-> TreeNew]

NoCall == [op |-> "none", id |-> None, parent |-> None, data |-> None,
           before |-> TreeNew, outcome |-> "none"]

\* no arena but those of the snailfish numbers is in use
ArenaIdle ==
    /\ arena = TreeNew
    /\ apc = "idle"
    /\ issued = <<>>
    /\ call = NoCall
    /\ ncalls = 0
    /\ rooted = "none"

\* no transmission is being decoded
PacketIdle ==
    /\ sent = <<>>
    /\ hextext = <<>>
    /\ transmission = <<>>
    /\ byte_offset = 0
    /\ bit_offset = 0
    /\ packets = <<>>
    /\ dpc = "idle"
    /\ dlog = NoLog
    /\ answer = None

\* the program is handed the lines of one of inputs
Start(inputs) ==
    /\ input \in inputs
    /\ result = None
    /\ shown = NoShow
    /\ numbers = <<>>
    /\ sum = TreeNew
    /\ pc = "new"
    /\ origin = "none"
    /\ entry = TreeNew
    /\ calls = 0
    /\ iters = 0
    /\ steps = 0
    /\ last = NoIteration

Init == Start(Inputs) /\ ArenaIdle /\ PacketIdle

\* Day18::new
New ==
    /\ pc = "new"
    /\ numbers' = [i \in 1..Len(input) |-> FromStr(input[i])]
    /\ pc' = "ready"
    /\ UNCHANGED <<input, sum, origin, entry, calls, iters, steps, last, result, shown>>
    /\ UNCHANGED <<arenaVars, packetVars>>

\* the entry of reduce_number on tree t
EnterReduce(t) ==
    /\ sum' = t
    /\ entry' = t
    /\ calls' = calls + 1
    /\ iters' = 0
    /\ steps' = 0
    /\ last' = NoIteration
    /\ pc' = "reduce"

\* impl Add for &SnailfishNumber, up to the entry of reduce_number
Add ==
    /\ pc = "ready"
    /\ Len(numbers) = 2
    /\ EnterReduce(combine_trees(numbers[1], numbers[2], Nested))
    /\ origin' = "add"
    /\ UNCHANGED <<input, numbers, result, shown>>
    /\ UNCHANGED <<arenaVars, packetVars>>

\* reduce_number on a number as parsed
ReduceParsed ==
    /\ pc = "ready"
    /\ Len(numbers) = 1
    /\ EnterReduce(numbers[1])
    /\ origin' = "parsed"
    /\ UNCHANGED <<input, numbers, result, shown>>
    /\ UNCHANGED <<arenaVars, packetVars>>

\* reduce_number on the number an earlier call returned
ReduceAgain ==
    /\ pc = "returned"
    /\ calls < MaxReduceCalls
    /\ EnterReduce(sum)
    /\ UNCHANGED <<input, numbers, origin, result, shown>>
    /\ UNCHANGED <<arenaVars, packetVars>>

\* the outcomes of a u8 addition: overflow panics where the build checks it
\* and wraps where it does not
Arithmetic(overflows) == IF overflows THEN {"panic", "wrap"} ELSE {"exact"}

\* as NextRule, but checks for split first
NextRule_SplitFirst(t) ==
    LET nested == find_nested_pair(t)
        big == find_big_pair(t)
    IN  IF big # None THEN [rule |-> "split", node |-> big]
        ELSE IF nested # None THEN [rule |-> "explode", node |-> nested]
        ELSE [rule |-> "none", node |-> None]

\* the if / else if of the loop body: first check for explode, then for split
NextRule(t) ==
    LET nested == find_nested_pair(t)
        big == find_big_pair(t)
    IN  IF nested # None THEN [rule |-> "explode", node |-> nested]
        ELSE IF big # None THEN [rule |-> "split", node |-> big]
        ELSE [rule |-> "none", node |-> None]

\* one iteration of the while loop of reduce_number
ReduceIter ==
    /\ pc = "reduce"
    /\ iters' = iters + 1
    /\ LET choice == NextRule(sum)
       IN  /\ last' = [rule |-> choice.rule, node |-> choice.node, before |-> sum]
           /\ IF choice.rule = "explode"
              THEN IF ExplodePanics(sum, Unwrap(choice.node))
                   THEN /\ pc' = "aborted"
                        /\ UNCHANGED <<sum, steps>>
                   ELSE \E outcome \in
                             Arithmetic(ExplodeOverflows(sum, Unwrap(choice.node))) :
                            IF outcome = "panic"
                            THEN /\ pc' = "aborted"
                                 /\ UNCHANGED <<sum, steps>>
                            ELSE /\ sum' = explode(sum, Unwrap(choice.node))
                                 /\ steps' = steps + 1
                                 /\ pc' = "reduce"
              ELSE IF choice.rule = "split"
              THEN \E outcome \in Arithmetic(SplitOverflows(sum, Unwrap(choice.node))) :
                       IF outcome = "panic"
                       THEN /\ pc' = "aborted"
                            /\ UNCHANGED <<sum, steps>>
                       ELSE /\ sum' = split(sum, Unwrap(choice.node))
                            /\ steps' = steps + 1
                            /\ pc' = "reduce"
              ELSE /\ pc' = "returned"
                   /\ UNCHANGED <<sum, steps>>
    /\ UNCHANGED <<input, numbers, origin, entry, calls, result, shown>>
    /\ UNCHANGED <<arenaVars, packetVars>>

Next == New \/ Add \/ ReduceParsed \/ ReduceAgain \/ ReduceIter

Spec == Init /\ [][Next]_vars

(***************************************************************************)
(* Magnitudes: of a number as parsed (test_snailfish_number_magnitude) and *)
(* of the sum of the first two lines (part_1).                             *)
(***************************************************************************)
\* most leaves of a line whose magnitude is taken
MaxMagnitudeLeaves == 4
\* the digits these lines are written with
MagnitudeDigits == {"0", "3", "7"}

\* the elements (a literal or a pair) with exactly n leaves
RECURSIVE ElemOver(_, _)
ElemOver(n, digits) ==
    IF n = 1
    THEN {<<d>> : d \in digits}
    ELSE UNION {{<<"[">> \o l \o <<",">> \o r \o <<"]">> :
                    l \in ElemOver(i, digits),
                    r \in ElemOver(n - i, digits)} : i \in 1..(n - 1)}

\* one line, or the two lines of a sum, each a pair
MagnitudeInputs ==
    UNION {{<<a>> : a \in ElemOver(n, MagnitudeDigits)} : n \in 2..MaxMagnitudeLeaves}
    \cup UNION {{<<a, b>> : a \in ElemOver(q[1], MagnitudeDigits),
                            b \in ElemOver(q[2], MagnitudeDigits)} :
                    q \in {x \in (2..MaxMagnitudeLeaves) \X (2..MaxMagnitudeLeaves) :
                              x[1] + x[2] <= MaxMagnitudeLeaves}}

MagnitudeInit == Start(MagnitudeInputs) /\ ArenaIdle /\ PacketIdle

\* a call of magnitude on t
Magnitude(t) ==
    /\ IF MagnitudePanics(t)
       THEN pc' = "aborted" /\ result' = None
       ELSE pc' = "done" /\ result' = Some(magnitude(t))
    /\ UNCHANGED <<input, numbers, sum, origin, entry, calls, iters, steps, last, shown>>
    /\ UNCHANGED <<arenaVars, packetVars>>

\* magnitude of a number as parsed
TestMagnitude ==
    /\ pc = "ready"
    /\ Len(numbers) = 1
    /\ Magnitude(numbers[1])

\* part_1 once the sum has come back: Ok(sum.magnitude().into())
Part1Magnitude ==
    /\ pc = "returned"
    /\ origin = "add"
    /\ Magnitude(sum)

MagnitudeNext == New \/ Add \/ ReduceIter \/ TestMagnitude \/ Part1Magnitude

MagnitudeSpec == MagnitudeInit /\ [][MagnitudeNext]_vars

(***************************************************************************)
(* Display: a number is parsed from a line and written back with           *)
(* format!("{}", number).                                                  *)
(***************************************************************************)
\* most leaves of a line
MaxDisplayLeaves == 4
\* the digits the lines of more than two leaves are written with
DisplayDigits == {"0", "5", "9"}

\* one or two lines, each a pair: every pair of two digits, and the pairs of up
\* to MaxDisplayLeaves leaves over DisplayDigits
DisplayLines ==
    ElemOver(2, AsciiDigits)
        \cup UNION {ElemOver(n, DisplayDigits) : n \in 2..MaxDisplayLeaves}

DisplayInputs ==
    {<<a>> : a \in DisplayLines}
        \cup {<<a, b>> : a \in ElemOver(2, DisplayDigits), b \in ElemOver(3, DisplayDigits)}

DisplayInit == Start(DisplayInputs) /\ ArenaIdle /\ PacketIdle

\* format!("{}", number) of a number as parsed
Format ==
    /\ pc = "ready"
    /\ \E i \in 1..Len(numbers) :
          shown' = [number |-> i, text |-> fmt(numbers[i])]
    /\ pc' = "done"
    /\ UNCHANGED <<input, numbers, sum, origin, entry, calls, iters, steps, last, result>>
    /\ UNCHANGED <<arenaVars, packetVars>>

DisplayNext == New \/ Format

DisplaySpec == DisplayInit /\ [][DisplayNext]_vars

(***************************************************************************)
(* An arena on its own: its owner calls insert, remove, node and node_mut  *)
(* on it in any order, with any id.  A panic ends the owner.               *)
(***************************************************************************)
\* most calls on the arena
MaxCalls == 4
\* the payloads inserted
ArenaData == {"a", "b"}
\* the ids handed to the calls: those MaxCalls inserts can assign, and one more
ArenaIds == 0..MaxCalls

ArenaInit ==
    /\ Start({<<>>})
    /\ arena = TreeNew
    /\ apc = "running"
    /\ issued = <<>>
    /\ call = NoCall
    /\ ncalls = 0
    /\ rooted = "none"
    /\ PacketIdle

\* tree.insert(data, parent), the ids named drawn from ids, within budget calls
InsertCall(ids, budget) ==
    /\ apc = "running"
    /\ ncalls < budget
    /\ \E data \in ArenaData, parent \in {None} \cup {Some(i) : i \in ids} :
          IF InsertPanics(arena, parent)
          THEN /\ arena' = AddAndTrack(arena, data, parent)
               /\ apc' = "aborted"
               /\ issued' = issued
               /\ call' = [op |-> "insert", id |-> None, parent |-> parent,
                           data |-> Some(data), before |-> arena, outcome |-> "aborted"]
          ELSE /\ arena' = insert(arena, data, parent).tree
               /\ apc' = "running"
               /\ issued' = Append(issued, insert(arena, data, parent).id)
               /\ call' = [op |-> "insert", id |-> Some(insert(arena, data, parent).id),
                           parent |-> parent, data |-> Some(data), before |-> arena,
                           outcome |-> "returned"]
    /\ ncalls' = ncalls + 1
    /\ rooted' = IF rooted = "none"
                 THEN IF call'.parent = None THEN "rooted" ELSE "free"
                 ELSE IF /\ rooted = "rooted"
                         /\ call'.parent # None
                         /\ Unwrap(call'.parent) \in Live(arena)
                      THEN "rooted" ELSE "free"
    /\ UNCHANGED <<snailVars, packetVars>>

Insert == InsertCall(ArenaIds, MaxCalls)

\* tree.remove(node_id), the id named drawn from ids, within budget calls
RemoveCall(ids, budget) ==
    /\ apc = "running"
    /\ ncalls < budget
    /\ \E node_id \in ids :
          /\ call' = [op |-> "remove", id |-> Some(node_id), parent |-> None,
                      data |-> None, before |-> arena,
                      outcome |-> IF RemovePanics(arena, node_id)
                                  THEN "aborted" ELSE "returned"]
          /\ IF RemovePanics(arena, node_id)
             THEN arena' = arena /\ apc' = "aborted"
             ELSE arena' = remove(arena, node_id) /\ apc' = "running"
    /\ ncalls' = ncalls + 1
    /\ rooted' = IF rooted = "rooted" /\ Unwrap(call'.id) \in Live(arena)
                 THEN "rooted" ELSE "free"
    /\ UNCHANGED issued
    /\ UNCHANGED <<snailVars, packetVars>>

Remove == RemoveCall(ArenaIds, MaxCalls)

\* tree.node(id) and tree.node_mut(id), the reference not written through
Lookup ==
    /\ apc = "running"
    /\ ncalls < MaxCalls
    /\ \E op \in {"node", "node_mut"}, id \in ArenaIds :
          /\ call' = [op |-> op, id |-> Some(id), parent |-> None,
                      data |-> IF NodePanics(arena, id) \/ node(arena, id) = None
                               THEN None ELSE Some(Unwrap(node(arena, id)).data),
                      before |-> arena,
                      outcome |-> IF NodePanics(arena, id) THEN "aborted" ELSE "returned"]
          /\ apc' = IF NodePanics(arena, id) THEN "aborted" ELSE "running"
    /\ ncalls' = ncalls + 1
    /\ rooted' = IF rooted = "rooted" /\ Unwrap(call'.id) \in Live(arena)
                 THEN "rooted" ELSE "free"
    /\ UNCHANGED <<arena, issued>>
    /\ UNCHANGED <<snailVars, packetVars>>

ArenaNext == Insert \/ Remove \/ Lookup

ArenaSpec == ArenaInit /\ [][ArenaNext]_vars

(***************************************************************************)
(* An arena whose owner first fills it, a root and every other node put    *)
(* under the root, until all InitialCapacity slots or all but one are      *)
(* taken, and then goes on with at most MaxGrowthCalls inserts and removes *)
(* that name the root, its first child or the first id past the capacity.  *)
(***************************************************************************)
MaxGrowthCalls == 4

GrowthIds == {0, 1, InitialCapacity}

GrowthInit ==
    /\ Start({<<>>})
    /\ arena = TreeNew
    /\ apc = "filling"
    /\ issued = <<>>
    /\ call = NoCall
    /\ ncalls = 0
    /\ rooted = "none"
    /\ PacketIdle

\* tree.insert(data, parent) in the filling loop
Fill ==
    /\ apc = "filling"
    /\ arena.id_tracker < InitialCapacity
    /\ LET parent == IF arena.id_tracker = 0 THEN None ELSE Some(0)
           inserted == insert(arena, "a", parent)
       IN  /\ arena' = inserted.tree
           /\ issued' = Append(issued, inserted.id)
           /\ call' = [op |-> "insert", id |-> Some(inserted.id), parent |-> parent,
                       data |-> Some("a"), before |-> arena, outcome |-> "returned"]
    /\ apc' \in IF arena'.id_tracker = InitialCapacity THEN {"running"}
                ELSE IF arena'.id_tracker = InitialCapacity - 1
                     THEN {"filling", "running"}
                     ELSE {"filling"}
    /\ rooted' = "rooted"
    /\ UNCHANGED ncalls
    /\ UNCHANGED <<snailVars, packetVars>>

InsertNearFull == InsertCall(GrowthIds, MaxGrowthCalls)

RemoveNearFull == RemoveCall(GrowthIds, MaxGrowthCalls)

GrowthNext == Fill \/ InsertNearFull \/ RemoveNearFull

GrowthSpec == GrowthInit /\ [][GrowthNext]_vars

(***************************************************************************)
(* Decoding a transmission: Day16::new turns the hexadecimal text into     *)
(* bytes and parse_packets decodes packet after packet; each iteration of  *)
(* its loop is a step.  The text is written from a list of packets, each   *)
(* padded with zero bits to a byte boundary; an operator of length type 0  *)
(* may declare a length that is off by LengthSkews.                        *)
(***************************************************************************)
\* most packets, nested ones counted, a transmission is written from
MaxNodes == 3
\* most five-bit groups of a literal
MaxGroups == 2
SentVersion == 6
LengthSkews == {-1, 0, 1}

\* the groups of the literals written: k groups counting up from 1, or down from 10
SentGroups == UNION {{[i \in 1..k |-> i], [i \in 1..k |-> 11 - i]} : k \in 1..MaxGroups}

\* type, length type and skew of the operators written
SentHeads ==
    {[type_id |-> "Sum", length_type_id |-> 0, skew |-> k] : k \in LengthSkews}
    \cup {[type_id |-> "Less", length_type_id |-> 0, skew |-> 0],
          [type_id |-> "Maximum", length_type_id |-> 1, skew |-> 0]}

RECURSIVE SentPackets(_)
RECURSIVE SentLists(_)
\* the packets of exactly n nodes
SentPackets(n) ==
    IF n = 1
    THEN {[version |-> SentVersion, type_id |-> "Literal", groups |-> g] : g \in SentGroups}
    ELSE {[version |-> SentVersion, type_id |-> h.type_id,
           length_type_id |-> h.length_type_id, skew |-> h.skew, subpackets |-> l] :
              h \in SentHeads, l \in SentLists(n - 1)}

\* the lists of packets of exactly n nodes in all
SentLists(n) ==
    IF n = 0
    THEN {<<>>}
    ELSE UNION {{<<q>> \o l : q \in SentPackets(i), l \in SentLists(n - i)} : i \in 1..n}

\* v in n bits, the most significant first
BitsOf(v, n) == [i \in 1..n |-> (v \div (2 ^ (n - i))) % 2]

TypeIdOf(name) == (CHOOSE i \in 1..8 : PacketTypes[i] = name) - 1

\* the groups of a literal from the i-th on: a flag, set but on the last, and 4 bits
RECURSIVE EncodeGroups(_, _)
EncodeGroups(groups, i) ==
    IF i > Len(groups) THEN <<>>
    ELSE <<IF i < Len(groups) THEN 1 ELSE 0>>
            \o BitsOf(groups[i], 4) \o EncodeGroups(groups, i + 1)

RECURSIVE Encode(_)
RECURSIVE EncodeAll(_, _)
\* the encodings of l[k], l[k + 1], ... one after the other, none padded
EncodeAll(l, k) == IF k > Len(l) THEN <<>> ELSE Encode(l[k]) \o EncodeAll(l, k + 1)

\* the bits a packet is written as
Encode(q) ==
    IF q.type_id = "Literal"
    THEN BitsOf(q.version, 3) \o BitsOf(4, 3) \o EncodeGroups(q.groups, 1)
    ELSE LET body == EncodeAll(q.subpackets, 1)
         IN  BitsOf(q.version, 3) \o BitsOf(TypeIdOf(q.type_id), 3)
                \o <<q.length_type_id>>
                \o (IF q.length_type_id = 0
                    THEN BitsOf(Len(body) + q.skew, 15)
                    ELSE BitsOf(Len(q.subpackets), 11))
                \o body

\* bits, padded with zero bits to whole bytes, as hexadecimal text
HexOf(bits) ==
    LET padded == bits \o [i \in 1..((8 - (Len(bits) % 8)) % 8) |-> 0]
    IN  [k \in 1..(Len(padded) \div 4) |->
            HexDigits[(8 * padded[(4 * k) - 3]) + (4 * padded[(4 * k) - 2])
                        + (2 * padded[(4 * k) - 1]) + padded[4 * k] + 1]]

\* the text of a transmission: packet after packet, each padded to whole bytes
RECURSIVE Transmit(_, _)
Transmit(l, k) == IF k > Len(l) THEN <<>> ELSE HexOf(Encode(l[k])) \o Transmit(l, k + 1)

PacketInit ==
    /\ sent \in UNION {SentLists(n) : n \in 1..MaxNodes}
    /\ hextext = Transmit(sent, 1)
    /\ transmission = <<>>
    /\ byte_offset = 0
    /\ bit_offset = 0
    /\ packets = <<>>
    /\ dpc = "new"
    /\ dlog = NoLog
    /\ answer = None
    /\ Start({<<>>})
    /\ ArenaIdle

\* Day16::new, up to the call of parse_packets
ParseTransmission ==
    /\ dpc = "new"
    /\ transmission' = parse_transmission(hextext)
    /\ dpc' = "parsing"
    /\ UNCHANGED <<sent, hextext, byte_offset, bit_offset, packets, dlog, answer>>
    /\ UNCHANGED <<snailVars, arenaVars>>

\* one iteration of the while loop of parse_packets
ParsePacket ==
    /\ dpc = "parsing"
    /\ byte_offset < Len(transmission)
    /\ LET start == [Cursor(byte_offset, bit_offset) EXCEPT !.log = dlog]
           packet == parse_packet(transmission, start)
       IN  /\ byte_offset' = packet.c.byte_offset
           /\ bit_offset' = packet.c.bit_offset
           /\ dlog' = IF packet.c.panic
                      THEN packet.c.log
                      ELSE [packet.c.log EXCEPT !.tops =
                               Append(@, [from |-> Pos(start), to |-> Pos(packet.c)])]
           /\ IF packet.c.panic
              THEN dpc' = "aborted" /\ packets' = packets
              ELSE dpc' = "parsing" /\ packets' = Append(packets, packet.packet)
    /\ UNCHANGED <<sent, hextext, transmission, answer>>
    /\ UNCHANGED <<snailVars, arenaVars>>

\* parse_packets returns
ParsePacketsReturn ==
    /\ dpc = "parsing"
    /\ ~(byte_offset < Len(transmission))
    /\ dpc' = "done"
    /\ UNCHANGED <<sent, hextext, transmission, byte_offset, bit_offset, packets, dlog,
                    answer>>
    /\ UNCHANGED <<snailVars, arenaVars>>

PacketNext == ParseTransmission \/ ParsePacket \/ ParsePacketsReturn

PacketSpec == PacketInit /\ [][PacketNext]_vars

(***************************************************************************)
(* Part 2: the transmission is decoded and its first packet evaluated.     *)
(* The text is written from one operator of any of the seven types, with   *)
(* none to MaxChildren subpackets, from a literal, from two literals or    *)
(* from nothing, and may end in whole bytes of zero padding.               *)
(***************************************************************************)
\* most subpackets of the operator written
MaxChildren == 3
\* most bytes of zero padding after the last packet
MaxPadBytes == 3

SentLiteral(groups) == [version |-> SentVersion, type_id |-> "Literal", groups |-> groups]

SentOperator(type_id, length_type_id, l) ==
    [version |-> SentVersion, type_id |-> type_id, length_type_id |-> length_type_id,
     skew |-> 0, subpackets |-> l]

\* the subpackets written: two literals, a product of them, and a comparison
\* that has one subpacket only
EvalChildren ==
    {SentLiteral(<<2>>), SentLiteral(<<7>>),
     SentOperator("Product", 1, <<SentLiteral(<<2>>), SentLiteral(<<7>>)>>),
     SentOperator("Greater", 0, <<SentLiteral(<<7>>)>>)}

EvalOperators ==
    {SentOperator(t, k, l) :
        t \in {"Sum", "Product", "Minimum", "Maximum", "Greater", "Less", "Equal"},
        k \in {0, 1},
        l \in UNION {[1..n -> EvalChildren] : n \in 0..MaxChildren}}

EvalSent ==
    {<<>>, <<SentLiteral(<<2>>), SentLiteral(<<7>>)>>}
        \cup {<<q>> : q \in EvalChildren \cup EvalOperators}

PadBytes == {0, 1, MaxPadBytes}

Part2Init ==
    /\ sent \in EvalSent
    /\ \E pad \in PadBytes : hextext = Transmit(sent, 1) \o [i \in 1..(2 * pad) |-> "0"]
    /\ transmission = <<>>
    /\ byte_offset = 0
    /\ bit_offset = 0
    /\ packets = <<>>
    /\ dpc = "new"
    /\ dlog = NoLog
    /\ answer = None
    /\ Start({<<>>})
    /\ ArenaIdle

\* part_2: &self.packets[0] panics when there is no packet
Part2 ==
    /\ dpc = "done"
    /\ LET value == IF packets = <<>> THEN Panicked ELSE evaluate(packets[1])
       IN  /\ answer' = Some(value)
           /\ dpc' = IF value.panic THEN "aborted" ELSE "answered"
    /\ UNCHANGED <<sent, hextext, transmission, byte_offset, bit_offset, packets, dlog>>
    /\ UNCHANGED <<snailVars, arenaVars>>

Part2Next == ParseTransmission \/ ParsePacket \/ ParsePacketsReturn \/ Part2

Part2Spec == Part2Init /\ [][Part2Next]_vars

(***************************************************************************)
(* What the properties speak of: the tree as its child lists lay it out,   *)
(* read from the root down (never through the parent links).               *)
(***************************************************************************)
Range(f) == {f[i] : i \in DOMAIN f}

NodeOf(t, id) == Unwrap(node(t, id))

\* the ids of the leaves under id, depth first, left to right
RECURSIVE Flatten(_, _)
RECURSIVE FlattenFrom(_, _, _)
FlattenFrom(t, ids, k) ==
    IF k > Len(ids) THEN <<>> ELSE Flatten(t, ids[k]) \o FlattenFrom(t, ids, k + 1)

Flatten(t, id) ==
    IF NodeOf(t, id).children = <<>> THEN <<id>> ELSE FlattenFrom(t, NodeOf(t, id).children, 1)

LeafIds(t) == IF t.root = None THEN <<>> ELSE Flatten(t, Unwrap(t.root))

\* the data of the leaves, in order
LeafData(t) == [i \in 1..Len(LeafIds(t)) |-> NodeOf(t, LeafIds(t)[i]).data]

\* the pairs <<id, depth>> of the nodes under id, id being at depth d
RECURSIVE Levels(_, _, _)
Levels(t, id, d) ==
    {<<id, d>>} \cup UNION {Levels(t, c, d + 1) : c \in Range(NodeOf(t, id).children)}

TreeLevels(t) == IF t.root = None THEN {} ELSE Levels(t, Unwrap(t.root), 0)

\* the nodes reachable from the root
TreeIds(t) == {p[1] : p \in TreeLevels(t)}

\* the ids in depth-first order, a parent before its children
RECURSIVE Preorder(_, _)
RECURSIVE PreorderFrom(_, _, _)
PreorderFrom(t, ids, k) ==
    IF k > Len(ids) THEN <<>> ELSE Preorder(t, ids[k]) \o PreorderFrom(t, ids, k + 1)

Preorder(t, id) == <<id>> \o PreorderFrom(t, NodeOf(t, id).children, 1)

\* data and shape under id, ids left out: <<data, <<shape of each child>>>>
RECURSIVE Shape(_, _)
Shape(t, id) ==
    <<NodeOf(t, id).data,
      [i \in 1..Len(NodeOf(t, id).children) |-> Shape(t, NodeOf(t, id).children[i])]>>

TreeShape(t) == IF t.root = None THEN <<>> ELSE Shape(t, Unwrap(t.root))

\* a pair that qualifies for explode: a Nested node at depth 4 or deeper
DeepPairs(t) == {p[1] : p \in {q \in TreeLevels(t) :
                                  q[2] >= ExplodeDepth /\ NodeOf(t, q[1]).data = Nested}}

\* a leaf that qualifies for split: a number of 10 or more
BigLeaves(t) == {id \in TreeIds(t) :
                    IsNumber(NodeOf(t, id).data) /\ number(NodeOf(t, id).data) >= 10}

\* the first id of the depth-first order that lies in S
FirstOf(t, S) ==
    LET order == Preorder(t, Unwrap(t.root))
    IN  order[Min({i \in 1..Len(order) : order[i] \in S})]

(***************************************************************************)
(* C1.  Reduction fixed point: whenever reduce_number has returned, the    *)
(* tree holds no pair at depth 4 or deeper whose two children are          *)
(* literals, and no leaf of 10 or more.                                    *)
(***************************************************************************)
\* the pairs at depth 4 or deeper with two literal children
LiteralDeepPairs(t) ==
    {id \in DeepPairs(t) :
        /\ Len(NodeOf(t, id).children) = 2
        /\ \A i \in 1..2 : IsNumber(NodeOf(t, NodeOf(t, id).children[i]).data)}

C1_FixedPoint ==
    pc = "returned" => LiteralDeepPairs(sum) = {} /\ BigLeaves(sum) = {}

\* a call that had a deep pair to explode and a number to split has returned
C1_Witness ==
    /\ pc = "returned"
    /\ calls = 1
    /\ LiteralDeepPairs(entry) # {}
    /\ Len(LeafIds(sum)) > Len(LeafIds(entry))

(***************************************************************************)
(* C2.  Termination: the reduction of the combination of two well-formed   *)
(* numbers reaches a state in which neither rule applies and returns; it   *)
(* neither loops forever nor aborts.                                       *)
(* Stated on the states of a run: the reduction of a sum is in its loop,   *)
(* where the next iteration can always run, or it has returned.            *)
(***************************************************************************)
C2_SumReductionReturns == origin = "add" => pc \in {"reduce", "returned"}

(***************************************************************************)
(* C3.  Explode on the flattened tree: the leaves [.., a, x, y, b, ..]     *)
(* become [.., a + x, 0, b + y, ..]; x (y) is dropped when there is no     *)
(* left (right) neighbour; both children leave the arena; the pair keeps   *)
(* its id and its place among its siblings and holds the literal 0.        *)
(***************************************************************************)
IndexOf(seq, x) == Min({i \in 1..Len(seq) : seq[i] = x})

\* the iteration just completed applied explode
Exploded == last.rule = "explode" /\ pc = "reduce"

C3_ExplodeEffect ==
    Exploded =>
        LET b == last.before
            p == Unwrap(last.node)
            x_id == NodeOf(b, p).children[1]
            y_id == NodeOf(b, p).children[2]
            x == NodeOf(b, x_id).data.n
            y == NodeOf(b, y_id).data.n
            old == LeafIds(b)
            new == LeafIds(sum)
            i == IndexOf(old, x_id)
        IN  /\ old[i + 1] = y_id
            /\ Len(new) = Len(old) - 1
            /\ \A j \in 1..Len(new) :
                 /\ new[j] = IF j < i THEN old[j] ELSE IF j = i THEN p ELSE old[j + 1]
                 /\ NodeOf(sum, new[j]).data =
                        IF j = i - 1 THEN Number(NodeOf(b, old[j]).data.n + x)
                        ELSE IF j = i THEN Number(0)
                        ELSE IF j = i + 1 THEN Number(NodeOf(b, old[j + 1]).data.n + y)
                        ELSE NodeOf(b, new[j]).data
            /\ Live(sum) = Live(b) \ {x_id, y_id}
            /\ NodeOf(sum, p).id = p
            /\ NodeOf(sum, p).parent = NodeOf(b, p).parent
            /\ NodeOf(sum, p).children = <<>>
            /\ \A q \in Live(sum) \ {p} :
                 /\ NodeOf(sum, q).children = NodeOf(b, q).children
                 /\ NodeOf(sum, q).parent = NodeOf(b, q).parent
                 /\ NodeOf(sum, q).id = q

\* an explode with a neighbour on either side, and nonzero x and y
C3_Witness ==
    /\ Exploded
    /\ LET b == last.before
           p == Unwrap(last.node)
           i == IndexOf(LeafIds(b), NodeOf(b, p).children[1])
       IN  /\ i > 1
           /\ i + 2 <= Len(LeafIds(b))
           /\ NodeOf(b, NodeOf(b, p).children[1]).data.n > 0
           /\ NodeOf(b, NodeOf(b, p).children[2]).data.n > 0
           /\ NodeOf(b, NodeOf(b, p).children[1]).data.n
                # NodeOf(b, NodeOf(b, p).children[2]).data.n

\* an explode of the first two leaves: x has no neighbour and is dropped
C3_WitnessNoLeft ==
    /\ Exploded
    /\ LeafIds(last.before)[1] = NodeOf(last.before, Unwrap(last.node)).children[1]
    /\ NodeOf(last.before, LeafIds(last.before)[1]).data.n > 0

(***************************************************************************)
(* C4.  Rule ordering.  As claimed: split is applied only if no pair       *)
(* qualifies for explode, a qualifying pair always makes the iteration     *)
(* explode, and every iteration applies exactly one rule.                  *)
(***************************************************************************)
\* explode before split, in every iteration run so far
ExplodeFirst ==
    /\ last.rule = "split" => DeepPairs(last.before) = {}
    /\ (iters > 0 /\ DeepPairs(last.before) # {}) => last.rule = "explode"

C4_ExactlyOneRulePerIteration ==
    /\ ExplodeFirst
    /\ steps = iters

(***************************************************************************)
(* C4, amended.  Explode before split as claimed; an iteration that is     *)
(* followed by another applies exactly one rule, and the last iteration of *)
(* a call applies none: it returns, having found no pair to explode and no *)
(* number to split (or it aborts inside explode, see C5).                  *)
(***************************************************************************)
C4_RuleOrdering ==
    /\ ExplodeFirst
    /\ pc = "reduce" => steps = iters /\ (iters > 0 => last.rule \in {"explode", "split"})
    /\ pc = "returned" =>
            /\ steps = iters - 1
            /\ last.rule = "none"
            /\ DeepPairs(last.before) = {}
            /\ BigLeaves(last.before) = {}
    /\ pc = "aborted" => steps = iters - 1 /\ last.rule = "explode"

\* an explode has just been applied though a number of 10 or more was waiting
\* to be split, after earlier rule applications
C4_Witness ==
    /\ pc = "reduce"
    /\ last.rule = "explode"
    /\ BigLeaves(last.before) # {}
    /\ steps > 2

(***************************************************************************)
(* C5.  Explode eligibility: the node explode is applied to is the         *)
(* left-most pair at depth 4 or deeper, and both its children are          *)
(* literals, whatever the nesting depth of the parsed input.               *)
(***************************************************************************)
C5_ExplodeEligibility ==
    last.rule = "explode" =>
        /\ Unwrap(last.node) = FirstOf(last.before, DeepPairs(last.before))
        /\ Unwrap(last.node) \in LiteralDeepPairs(last.before)

(***************************************************************************)
(* C6.  Split effect: with no pair to explode, split takes the left-most   *)
(* leaf of 10 or more and makes that node a pair with two new literal      *)
(* children, floor(v / 2) then ceil(v / 2), which add up to v; every other *)
(* node is unchanged.                                                      *)
(***************************************************************************)
\* the iteration just completed applied split
Splitted == last.rule = "split" /\ pc = "reduce"

C6_SplitEffect ==
    /\ (iters > 0 /\ DeepPairs(last.before) = {} /\ BigLeaves(last.before) # {})
            => last.rule = "split"
    /\ Splitted =>
        LET b == last.before
            p == Unwrap(last.node)
            v == NodeOf(b, p).data.n
            kids == NodeOf(sum, p).children
        IN  /\ p = FirstOf(b, BigLeaves(b))
            /\ NodeOf(sum, p) = [NodeOf(b, p) EXCEPT !.data = Nested, !.children = kids]
            /\ Len(kids) = 2
            /\ kids[1] # kids[2]
            /\ Range(kids) \cap Live(b) = {}
            /\ Live(sum) = Live(b) \cup Range(kids)
            /\ NodeOf(sum, kids[1]) =
                   [id |-> kids[1], data |-> Number(v \div 2),
                    parent |-> Some(p), children |-> <<>>]
            /\ NodeOf(sum, kids[2]) =
                   [id |-> kids[2], data |-> Number(v - (v \div 2)),
                    parent |-> Some(p), children |-> <<>>]
            /\ NodeOf(sum, kids[1]).data.n + NodeOf(sum, kids[2]).data.n = v
            /\ \A q \in Live(b) \ {p} : NodeOf(sum, q) = NodeOf(b, q)
            /\ sum.root = b.root

\* a split of an odd number, which is not the first big leaf of the arena by id
C6_Witness ==
    /\ Splitted
    /\ NodeOf(last.before, Unwrap(last.node)).data.n % 2 = 1
    /\ Cardinality(BigLeaves(last.before)) > 1

(***************************************************************************)
(* C7.  Combine structure: combine_trees(A, B, d) is a new arena whose     *)
(* root holds d and has two children, the roots of copies of A and of B in *)
(* this order; the copies keep data, shape and child order, so the leaves  *)
(* of the result are those of A followed by those of B.                    *)
(***************************************************************************)
\* sum is what combine_trees returned: no iteration has run on it yet
Combined == pc = "reduce" /\ origin = "add" /\ calls = 1 /\ iters = 0

C7_CombineStructure ==
    Combined =>
        LET a == numbers[1]
            b == numbers[2]
            r == NodeOf(sum, Unwrap(sum.root))
        IN  /\ sum.root # None
            /\ r.data = Nested
            /\ r.parent = None
            /\ Len(r.children) = 2
            /\ Shape(sum, r.children[1]) = TreeShape(a)
            /\ Shape(sum, r.children[2]) = TreeShape(b)
            /\ LeafData(sum) = LeafData(a) \o LeafData(b)
            \* a new arena: ids from 0 on, one per node copied, all under the root
            /\ sum.id_tracker = 1 + Cardinality(TreeIds(a)) + Cardinality(TreeIds(b))
            /\ Live(sum) = 0..(sum.id_tracker - 1)
            /\ TreeIds(sum) = Live(sum)
            /\ \A id \in Live(sum) : \A c \in Range(NodeOf(sum, id).children) :
                    NodeOf(sum, c).parent = Some(id)

\* a combination of two numbers of different shapes, each with an inner pair
C7_Witness ==
    /\ Combined
    /\ TreeShape(numbers[1]) # TreeShape(numbers[2])
    /\ Len(LeafIds(numbers[1])) >= 3
    /\ Len(LeafIds(numbers[2])) >= 3

(***************************************************************************)
(* C8.  Neighbour correctness: for every leaf L of a tree,                 *)
(* left_neighbor_leaf(L) is the leaf just before L and                     *)
(* right_neighbor_leaf(L) the leaf just after L in the depth-first,        *)
(* left-to-right order of the leaves; None exactly for the first (last).   *)
(***************************************************************************)
NeighboursCorrect(t) ==
    LET leaves == LeafIds(t)
    IN  \A i \in 1..Len(leaves) :
            /\ left_neighbor_leaf(t, leaves[i]) =
                    IF i = 1 THEN None ELSE Some(leaves[i - 1])
            /\ right_neighbor_leaf(t, leaves[i]) =
                    IF i = Len(leaves) THEN None ELSE Some(leaves[i + 1])

\* the trees of a state: the numbers once parsed, then the one being reduced
C8_NeighbourCorrectness ==
    /\ pc = "ready" => \A k \in 1..Len(numbers) : NeighboursCorrect(numbers[k])
    /\ pc \in {"reduce", "returned", "aborted"} => NeighboursCorrect(sum)

\* a leaf whose left neighbour takes a climb of two levels and a descent
C8_Witness ==
    /\ pc = "reduce"
    /\ \E i \in 2..Len(LeafIds(sum)) :
          LET l == LeafIds(sum)[i]
              parent == Unwrap(NodeOf(sum, l).parent)
          IN  /\ NodeOf(sum, parent).children[1] = l
              /\ NodeOf(sum, parent).parent # None
              /\ NodeOf(sum, Unwrap(NodeOf(sum, parent).parent)).children[1] = parent
              /\ left_neighbor_node(sum, l) # Some(LeafIds(sum)[i - 1])
              /\ left_neighbor_leaf(sum, l) # None

(***************************************************************************)
(* C9.  Neighbour symmetry: if right_neighbor_leaf(L) = M then             *)
(* left_neighbor_leaf(M) = L, and if left_neighbor_leaf(L) = M then        *)
(* right_neighbor_leaf(M) = L, for every leaf L.                           *)
(***************************************************************************)
NeighboursSymmetric(t) ==
    \A l \in Range(LeafIds(t)) :
        /\ right_neighbor_leaf(t, l) # None =>
                left_neighbor_leaf(t, Unwrap(right_neighbor_leaf(t, l))) = Some(l)
        /\ left_neighbor_leaf(t, l) # None =>
                right_neighbor_leaf(t, Unwrap(left_neighbor_leaf(t, l))) = Some(l)

C9_NeighbourSymmetry ==
    /\ pc = "ready" => \A k \in 1..Len(numbers) : NeighboursSymmetric(numbers[k])
    /\ pc \in {"reduce", "returned", "aborted"} => NeighboursSymmetric(sum)

\* a leaf with a neighbour on either side, neither of them its sibling
C9_Witness ==
    /\ pc = "reduce"
    /\ steps > 0
    /\ \E l \in Range(LeafIds(sum)) :
          /\ left_neighbor_leaf(sum, l) # None
          /\ right_neighbor_leaf(sum, l) # None
          /\ left_neighbor_node(sum, l) # left_neighbor_leaf(sum, l)
          /\ right_neighbor_node(sum, l) # right_neighbor_leaf(sum, l)

(***************************************************************************)
(* C10.  Idempotence: reduce_number on a tree that is already reduced      *)
(* applies neither rule and returns the tree with the same nodes, ids,     *)
(* data and child order.                                                   *)
(***************************************************************************)
\* reduced, as C1 has it
IsReduced(t) == LiteralDeepPairs(t) = {} /\ BigLeaves(t) = {}

C10_Idempotence ==
    IsReduced(entry) =>
        /\ steps = 0
        /\ sum = entry
        /\ pc # "aborted"
        /\ pc = "returned" => iters = 1

\* a second call has returned, on the result of a call that did explode
C10_Witness ==
    /\ pc = "returned"
    /\ calls = 2
    /\ IsReduced(entry)
    /\ Cardinality(Live(entry)) < entry.id_tracker

(***************************************************************************)
(* C11.  Magnitude: on a tree whose pairs all have exactly two children,   *)
(* magnitude returns m(root), where m(leaf) is the leaf's literal and      *)
(* m(pair) = 3 * m(left child) + 2 * m(right child).  Unfolded, m(root) is *)
(* the sum over the leaves of the literal times 3 for every left turn and  *)
(* 2 for every right turn on the way down from the root.                   *)
(***************************************************************************)
\* the tree magnitude was called on
MagnitudeArg == IF origin = "add" THEN sum ELSE numbers[1]

AllPairsBinary(t) ==
    \A id \in TreeIds(t) :
        IF IsNumber(NodeOf(t, id).data)
        THEN NodeOf(t, id).children = <<>>
        ELSE Len(NodeOf(t, id).children) = 2

\* the weighted sum of the leaves under id, w being the weight of id itself
RECURSIVE WeightedLeaves(_, _, _)
WeightedLeaves(t, id, w) ==
    IF NodeOf(t, id).children = <<>>
    THEN w * NodeOf(t, id).data.n
    ELSE WeightedLeaves(t, NodeOf(t, id).children[1], 3 * w)
            + WeightedLeaves(t, NodeOf(t, id).children[2], 2 * w)

C11_Magnitude ==
    (pc = "done" /\ AllPairsBinary(MagnitudeArg))
        => result = Some(WeightedLeaves(MagnitudeArg, Unwrap(MagnitudeArg.root), 1))

\* a magnitude was taken of a number whose two elements weigh differently
C11_Witness ==
    /\ pc = "done"
    /\ AllPairsBinary(MagnitudeArg)
    /\ Len(LeafIds(MagnitudeArg)) = MaxMagnitudeLeaves
    /\ LET r == NodeOf(MagnitudeArg, Unwrap(MagnitudeArg.root))
       IN  magnitude_rec(MagnitudeArg, r.children[1])
               # magnitude_rec(MagnitudeArg, r.children[2])
    /\ Unwrap(result) > 0

(***************************************************************************)
(* C12.  Child-link invariant: after any sequence of insert and remove     *)
(* calls, every id c among the children of a live node p is live, has p    *)
(* for its parent, and is listed by p exactly once.                        *)
(***************************************************************************)
ChildLinks(t) ==
    \A p \in Live(t) :
        /\ node(t, p) # None
        /\ \A i \in 1..Len(NodeOf(t, p).children) :
              LET c == NodeOf(t, p).children[i]
              IN  /\ c \in Live(t)
                  /\ node(t, c) # None
                  /\ NodeOf(t, c).parent = Some(p)
                  /\ Cardinality({j \in 1..Len(NodeOf(t, p).children) :
                                     NodeOf(t, p).children[j] = c}) = 1

C12_ChildLinks == ChildLinks(arena)

\* nodes have been inserted and removed, and a live parent still lists two children
C12_Witness ==
    /\ call.op = "remove"
    /\ call.outcome = "returned"
    /\ Len(issued) = MaxCalls - 1
    /\ \E p \in Live(arena) : Len(NodeOf(arena, p).children) = 1
    /\ \E p \in Live(call.before) : Len(NodeOf(call.before, p).children) = 2

(***************************************************************************)
(* C13.  Single-root invariant: once the first call has inserted a node    *)
(* with parent None, and as long as every later call is an insert under a  *)
(* live parent or a remove of a live id, exactly one live node has parent  *)
(* None and the root field holds its id.                                   *)
(***************************************************************************)
ParentlessLive(t) == {p \in Live(t) : NodeOf(t, p).parent = None}

C13_SingleRoot ==
    rooted = "rooted"
        => /\ Cardinality(ParentlessLive(arena)) = 1
           /\ \A p \in ParentlessLive(arena) : arena.root = Some(p)

(***************************************************************************)
(* C14.  Id freshness: every insert returns an id strictly greater than    *)
(* all ids the arena returned before, so a removed id never comes back,    *)
(* even when the removed node's storage slot is used again.                *)
(***************************************************************************)
C14_IdFreshness ==
    \A i, j \in 1..Len(issued) : i < j => issued[i] < issued[j]

\* an insert has just been given the slot of a node removed earlier
C14_Witness ==
    /\ call.op = "insert"
    /\ call.outcome = "returned"
    /\ Len(issued) >= 3
    /\ \E old \in Range(issued) :
          /\ old \notin Live(arena)
          /\ old < Unwrap(call.id)
          /\ arena.node_positions[Unwrap(call.id)] = old

(***************************************************************************)
(* C15.  Remove effect and frame: remove of a live id completes; the id is *)
(* then not live and gone from its former parent's children, whose other   *)
(* children keep their order; the removed node's children stay live; every *)
(* other node keeps its data, its parent and its children.                 *)
(***************************************************************************)
C15_RemoveEffect ==
    (call.op = "remove" /\ Unwrap(call.id) \in Live(call.before))
        => LET id == Unwrap(call.id)
               gone == NodeOf(call.before, id)
           IN  /\ call.outcome = "returned"
               /\ Live(arena) = Live(call.before) \ {id}
               /\ \A q \in Live(call.before) \ {id} :
                     /\ node(arena, q) # None
                     /\ NodeOf(arena, q).data = NodeOf(call.before, q).data
                     /\ NodeOf(arena, q).parent = NodeOf(call.before, q).parent
                     /\ NodeOf(arena, q).children =
                            IF gone.parent = Some(q)
                            THEN SelectSeq(NodeOf(call.before, q).children,
                                           LAMBDA c : c # id)
                            ELSE NodeOf(call.before, q).children

(***************************************************************************)
(* C16.  Non-live ids are fatal: node, node_mut and remove called with an  *)
(* id that is not live, and insert called with a parent id that is not     *)
(* live, abort; none of them returns.                                      *)
(***************************************************************************)
C16_NonLiveIdsFatal ==
    /\ (call.op \in {"node", "node_mut", "remove"}
            /\ Unwrap(call.id) \notin Live(call.before))
        => call.outcome = "aborted"
    /\ (call.op = "insert" /\ call.parent # None
            /\ Unwrap(call.parent) \notin Live(call.before))
        => call.outcome = "aborted"

(***************************************************************************)
(* What the properties of the decoder speak of: the transmission as one    *)
(* string of bits, and the packets it was written from.                    *)
(***************************************************************************)
\* the bits of the bytes, each byte most significant bit first
RECURSIVE BytesBits(_, _)
BytesBits(bytes, k) ==
    IF k > Len(bytes) THEN <<>> ELSE BitsOf(bytes[k], 8) \o BytesBits(bytes, k + 1)

TransmissionBits == BytesBits(transmission, 1)

\* the literal a list of groups stands for, the first group most significant
RECURSIVE GroupsValue(_, _)
GroupsValue(groups, i) ==
    IF i > Len(groups) THEN 0
    ELSE (groups[i] * (2 ^ (4 * (Len(groups) - i)))) + GroupsValue(groups, i + 1)

\* the packet a written packet decodes to
RECURSIVE Strip(_)
Strip(q) ==
    IF q.type_id = "Literal"
    THEN Packet(q.version, "Literal", 0, Literal(GroupsValue(q.groups, 1)))
    ELSE Packet(q.version, q.type_id, q.length_type_id,
                Subpackets([i \in 1..Len(q.subpackets) |-> Strip(q.subpackets[i])]))

\* every operator of length type 0 declares the length its subpackets have
RECURSIVE WellFormed(_)
WellFormed(q) ==
    \/ q.type_id = "Literal"
    \/ /\ q.skew = 0
       /\ \A i \in 1..Len(q.subpackets) : WellFormed(q.subpackets[i])

(***************************************************************************)
(* C17.  Length-type-0 delimiting: when the child loop of an operator of   *)
(* length type 0 finishes, its children have consumed exactly the declared *)
(* number of bits: the cursor is at, not past, the computed end.           *)
(***************************************************************************)
C17_LengthDelimiting ==
    \A i \in 1..Len(dlog.loops) :
        /\ dlog.loops[i].at = dlog.loops[i].end
        /\ dlog.loops[i].at - dlog.loops[i].start = dlog.loops[i].length

(***************************************************************************)
(* C18.  Top-level alignment: every top-level parse_packet call ends with  *)
(* the cursor at bit offset 0; a nested parse ends where its last read     *)
(* ended; so a transmission of well-formed packets, each zero-padded to a  *)
(* byte boundary, decodes to exactly those packets in order.               *)
(***************************************************************************)
C18_TopLevelAlignment ==
    /\ dpc \in {"parsing", "done"} => bit_offset = 0
    /\ \A i \in 1..Len(dlog.subs) :
          \E j \in 1..Len(dlog.grabs) : dlog.grabs[j].to = dlog.subs[i].to
    /\ (\A i \in 1..Len(sent) : WellFormed(sent[i]))
          => /\ dpc # "aborted"
             /\ Len(packets) <= Len(sent)
             /\ \A i \in 1..Len(packets) : packets[i] = Strip(sent[i])
             /\ dpc = "done" => Len(packets) = Len(sent)

\* several well-formed packets were decoded, an operator that ended inside a
\* byte among them and not the last
C18_Witness ==
    /\ dpc = "done"
    /\ Len(sent) >= 2
    /\ \A i \in 1..Len(sent) : WellFormed(sent[i])
    /\ sent[1].type_id # "Literal"
    /\ Len(Encode(sent[1])) % 8 # 0
    /\ Len(dlog.subs) >= 1
    /\ Len(packets) = Len(sent)

(***************************************************************************)
(* C19.  Bit read: grab_bits of width N (grab_bit for N = 1) returns the   *)
(* number the next N bits of the buffer spell, most significant first and  *)
(* across byte boundaries, and advances the position by exactly N with the *)
(* bit offset staying in 0..7; the position never decreases.               *)
(***************************************************************************)
C19_BitRead ==
    /\ bit_offset \in 0..7
    /\ \A i \in 1..Len(dlog.grabs) :
          LET g == dlog.grabs[i]
          IN  /\ g.to = g.from + g.n
              /\ g.bit_offset \in 0..7
              /\ g.bit_offset = g.to % 8
              /\ g.value \in 0..((2 ^ g.n) - 1)
              /\ BitsOf(g.value, g.n) = SubSeq(TransmissionBits, g.from + 1, g.to)
              /\ i > 1 => dlog.grabs[i - 1].to <= g.from
              /\ g.to <= (byte_offset * 8) + bit_offset

\* a read of one bit and a read of fifteen bits across two byte boundaries
\* have returned
C19_Witness ==
    /\ \E i \in 1..Len(dlog.grabs) : dlog.grabs[i].n = 1
    /\ \E i \in 1..Len(dlog.grabs) :
          LET g == dlog.grabs[i]
          IN  /\ g.n = 15
              /\ (g.to - 1) \div 8 = (g.from \div 8) + 2
              /\ g.value = 11

(***************************************************************************)
(* C20.  Literal decoding: the decoder reads 5-bit groups and stops after  *)
(* the first whose high bit is 0; the value is the low 4 bits of the       *)
(* groups put together, the first group most significant; k groups (up to  *)
(* 16) consume exactly 5 * k bits.                                         *)
(***************************************************************************)
C20_LiteralDecoding ==
    \A i \in 1..Len(dlog.literals) :
        LET e == dlog.literals[i]
            k == Len(e.chunks)
            bits == TransmissionBits
        IN  k <= 16
              => /\ k >= 1
                 /\ e.to - e.from = 5 * k
                 /\ \A j \in 1..k :
                       bits[e.from + (5 * (j - 1)) + 1] = IF j < k THEN 1 ELSE 0
                 /\ e.value \in 0..((2 ^ (4 * k)) - 1)
                 /\ BitsOf(e.value, 4 * k) =
                       [b \in 1..(4 * k) |->
                           bits[e.from + (5 * ((b - 1) \div 4)) + 2 + ((b - 1) % 4)]]

\* a literal of MaxGroups groups, nested in an operator, was decoded
C20_Witness ==
    \E i \in 1..Len(dlog.literals) :
        /\ Len(dlog.literals[i].chunks) = MaxGroups
        /\ dlog.literals[i].from > 6
        /\ dlog.literals[i].value = GroupsValue([j \in 1..MaxGroups |-> 11 - j], 1)

(***************************************************************************)
(* C21.  Length-type-1 delimiting: an operator decoded with length type 1  *)
(* has exactly as many children as its 11-bit field says, stored in the    *)
(* order they appear in the bit stream: the first child starts where the   *)
(* field ends and every child starts where the one before it ends.         *)
(***************************************************************************)
\* where the k-th, (k + 1)-th, ... of the children end when they were decoded
\* one after the other from pos on; -1 when they were not
RECURSIVE DecodedInOrder(_, _, _)
DecodedInOrder(pos, children, k) ==
    IF k > Len(children)
    THEN pos
    ELSE LET at == {i \in 1..Len(dlog.subs) :
                        /\ dlog.subs[i].from = pos
                        /\ dlog.subs[i].packet = children[k]}
         IN  IF at = {}
             THEN -1
             ELSE DecodedInOrder(dlog.subs[Min(at)].to, children, k + 1)

C21_CountDelimiting ==
    \A i \in 1..Len(dlog.counts) :
        LET e == dlog.counts[i]
        IN  /\ Len(e.subpackets) = e.count
            /\ DecodedInOrder(e.start, e.subpackets, 1) = e.at

\* an operator of length type 1 with two different children was decoded
C21_Witness ==
    /\ dpc = "done"
    /\ \E i \in 1..Len(dlog.counts) :
          /\ dlog.counts[i].count = 2
          /\ dlog.counts[i].subpackets[1] # dlog.counts[i].subpackets[2]

(***************************************************************************)
(* What the properties of the evaluation speak of: the value of a written  *)
(* packet, where it has one.                                               *)
(***************************************************************************)
Comparisons == {"Greater", "Less", "Equal"}

\* every comparison has two subpackets and every minimum and maximum one or more
RECURSIVE Evaluable(_)
Evaluable(q) ==
    \/ q.type_id = "Literal"
    \/ /\ q.type_id \in Comparisons => Len(q.subpackets) = 2
       /\ q.type_id \in {"Minimum", "Maximum"} => Len(q.subpackets) >= 1
       /\ \A i \in 1..Len(q.subpackets) : Evaluable(q.subpackets[i])

\* a comparison that has not two subpackets is q or lies in q
RECURSIVE HasOddComparison(_)
HasOddComparison(q) ==
    /\ q.type_id # "Literal"
    /\ \/ q.type_id \in Comparisons /\ Len(q.subpackets) # 2
       \/ \E i \in 1..Len(q.subpackets) : HasOddComparison(q.subpackets[i])

\* the sum and the product of the first n of vs
RECURSIVE SumOfFirst(_, _)
SumOfFirst(vs, n) == IF n = 0 THEN 0 ELSE SumOfFirst(vs, n - 1) + vs[n]

RECURSIVE ProductOfFirst(_, _)
ProductOfFirst(vs, n) == IF n = 0 THEN 1 ELSE ProductOfFirst(vs, n - 1) * vs[n]

\* the value of an evaluable written packet
RECURSIVE Reference(_)
Reference(q) ==
    IF q.type_id = "Literal"
    THEN GroupsValue(q.groups, 1)
    ELSE LET vs == [i \in 1..Len(q.subpackets) |-> Reference(q.subpackets[i])]
         IN  CASE q.type_id = "Sum" -> SumOfFirst(vs, Len(vs))
               [] q.type_id = "Product" -> ProductOfFirst(vs, Len(vs))
               [] q.type_id = "Minimum" ->
                      CHOOSE m \in Range(vs) : \A v \in Range(vs) : m <= v
               [] q.type_id = "Maximum" ->
                      CHOOSE m \in Range(vs) : \A v \in Range(vs) : m >= v
               [] q.type_id = "Greater" -> IF vs[1] > vs[2] THEN 1 ELSE 0
               [] q.type_id = "Less" -> IF vs[1] < vs[2] THEN 1 ELSE 0
               [] q.type_id = "Equal" -> IF vs[1] = vs[2] THEN 1 ELSE 0

\* part_2 has evaluated the first packet of the transmission
Evaluated == answer # None /\ sent # <<>>

(***************************************************************************)
(* C22.  Evaluation: evaluate gives what the reference function gives for  *)
(* the packet the bits were written from: a literal its value; Sum,        *)
(* Product, Minimum and Maximum the sum, product, minimum and maximum of   *)
(* the values of the children; Greater, Less and Equal 1 if the value of   *)
(* the first child is greater than, less than, equal to the value of the   *)
(* second, and 0 otherwise.                                                *)
(***************************************************************************)
C22_Evaluation ==
    (Evaluated /\ Evaluable(sent[1]))
        => /\ answer = Some(Value(Reference(sent[1])))
           /\ dpc = "answered"

\* a maximum whose largest child is a product and not its last child
C22_Witness ==
    /\ Evaluated
    /\ dpc = "answered"
    /\ sent[1].type_id = "Maximum"
    /\ Len(sent[1].subpackets) = 3
    /\ sent[1].subpackets[2].type_id = "Product"
    /\ sent[1].subpackets[3].type_id = "Literal"
    /\ answer = Some(Value(14))

(***************************************************************************)
(* C23.  Comparison precondition: the evaluation of a Greater, Less or     *)
(* Equal packet that has not exactly two children (none, one, three or     *)
(* more) is fatal, at the top and nested in another packet; no number is   *)
(* produced.                                                               *)
(***************************************************************************)
C23_ComparisonPrecondition ==
    (Evaluated /\ HasOddComparison(sent[1]))
        => /\ Unwrap(answer).panic
           /\ dpc = "aborted"

\* an Equal packet of three literal children was decoded whole and evaluated
C23_Witness ==
    /\ Evaluated
    /\ dpc = "aborted"
    /\ sent[1].type_id = "Equal"
    /\ Len(sent[1].subpackets) = 3
    /\ \A i \in 1..3 : sent[1].subpackets[i].type_id = "Literal"
    /\ Len(subpackets(packets[1])) = 3

(***************************************************************************)
(* C29.  Operators with no children: an operator of length type 0 that     *)
(* declares 0 bits, and one of length type 1 that declares 0 subpackets,   *)
(* decode to an operator packet with an empty list of children; its        *)
(* evaluation gives 0 for Sum and 1 for Product and is fatal for Minimum   *)
(* and Maximum.                                                            *)
(***************************************************************************)
Childless(q) == q.type_id # "Literal" /\ q.subpackets = <<>>

C29_ChildlessOperators ==
    (sent # <<>> /\ Childless(sent[1]))
        => /\ dpc = "aborted" /\ answer = None => Len(packets) >= 1
           /\ Len(packets) >= 1
                 => packets[1] = Packet(sent[1].version, sent[1].type_id,
                                        sent[1].length_type_id, Subpackets(<<>>))
           /\ answer # None
                 => /\ sent[1].type_id = "Sum" => answer = Some(Value(0))
                    /\ sent[1].type_id = "Product" => answer = Some(Value(1))
                    /\ sent[1].type_id \in {"Minimum", "Maximum"}
                          => Unwrap(answer).panic /\ dpc = "aborted"

\* a product of length type 0 that declares 0 bits was decoded and evaluated
C29_Witness ==
    /\ Evaluated
    /\ Childless(sent[1])
    /\ sent[1].type_id = "Product"
    /\ sent[1].length_type_id = 0
    /\ dlog.loops # <<>>
    /\ dlog.loops[1].length = 0
    /\ subpackets(packets[1]) = <<>>
    /\ answer = Some(Value(1))

(***************************************************************************)
(* C27.  Decode loop coverage: parse_packets starts a top-level packet at  *)
(* byte 0 and one at the byte boundary every top-level packet ends at,     *)
(* until the buffer is exhausted; when it has returned, the byte offset is *)
(* the length of the buffer and the bit offset 0, the top-level packets    *)
(* cover the buffer from its first to its last byte, whole bytes of        *)
(* trailing padding included, and every byte was read from.                *)
(***************************************************************************)
ParsePacketsReturned == dpc \in {"done", "answered"} \/ answer # None

C27_DecodeLoopCoverage ==
    /\ Len(dlog.tops) = Len(packets)
    /\ \A i \in 1..Len(dlog.tops) :
          /\ dlog.tops[i].from = IF i = 1 THEN 0 ELSE dlog.tops[i - 1].to
          /\ dlog.tops[i].from % 8 = 0
          /\ dlog.tops[i].from < dlog.tops[i].to
          /\ dlog.tops[i].to <= 8 * Len(transmission)
    /\ ParsePacketsReturned
          => /\ byte_offset = Len(transmission)
             /\ bit_offset = 0
             /\ transmission # <<>>
                   => /\ dlog.tops # <<>>
                      /\ dlog.tops[Len(dlog.tops)].to = 8 * Len(transmission)
             /\ \A b \in 0..(Len(transmission) - 1) :
                   \E j \in 1..Len(dlog.grabs) :
                      /\ dlog.grabs[j].from < 8 * (b + 1)
                      /\ dlog.grabs[j].to > 8 * b

\* a transmission that ends in three bytes of padding was decoded: the padding
\* became one more top-level packet
C27_Witness ==
    /\ ParsePacketsReturned
    /\ sent # <<>>
    /\ Len(hextext) = Len(Transmit(sent, 1)) + (2 * MaxPadBytes)
    /\ Len(packets) = Len(sent) + 1
    /\ dlog.tops[Len(packets)].to - dlog.tops[Len(packets)].from = 8 * MaxPadBytes
    /\ byte_offset = Len(transmission)

(***************************************************************************)
(* C24.  Serialization round-trip: for a well-formed line s of bracket     *)
(* notation with single-digit literals, writing the tree parsed from s     *)
(* gives s back exactly: a pair is written as "[" left "," right "]" and a *)
(* leaf as its decimal value.                                              *)
(***************************************************************************)
\* the text of the subtree at id, by the rule of the claim
RECURSIVE Bracketed(_, _)
Bracketed(t, id) ==
    IF IsNumber(NodeOf(t, id).data)
    THEN Decimal(NodeOf(t, id).data.n)
    ELSE <<"[">> \o Bracketed(t, NodeOf(t, id).children[1]) \o <<",">>
            \o Bracketed(t, NodeOf(t, id).children[2]) \o <<"]">>

C24_RoundTrip ==
    shown # NoShow
        => /\ shown.text = input[shown.number]
           /\ shown.text = Bracketed(numbers[shown.number],
                                     Unwrap(numbers[shown.number].root))

\* a line of MaxDisplayLeaves leaves, not all the same digit, nested on both
\* sides, was written back
C24_Witness ==
    /\ shown # NoShow
    /\ Len(LeafIds(numbers[shown.number])) = MaxDisplayLeaves
    /\ Cardinality(Range(LeafData(numbers[shown.number]))) >= 2
    /\ shown.text[2] = "["
    /\ shown.text[Len(shown.text) - 1] = "]"

(***************************************************************************)
(* C25.  Pair-shape invariant: in the numbers parsed from well-formed      *)
(* lines, in their combination, and after every explode and every split    *)
(* that has completed in the reduction loop, every node marked Nested has  *)
(* exactly two children and every node that holds a literal has none.      *)
(***************************************************************************)
PairShape(t) ==
    \A id \in Live(t) :
        /\ node(t, id) # None
        /\ IF IsNumber(NodeOf(t, id).data)
           THEN NodeOf(t, id).children = <<>>
           ELSE Len(NodeOf(t, id).children) = 2

C25_PairShape ==
    /\ \A i \in 1..Len(numbers) : PairShape(numbers[i])
    /\ PairShape(sum)
    /\ last.rule \in {"explode", "split"} => PairShape(last.before)

\* in the reduction of a sum, a split has completed after an explode
C25_Witness ==
    /\ origin = "add"
    /\ pc = "reduce"
    /\ last.rule = "split"
    /\ steps >= 2
    /\ Cardinality(Live(sum)) > Cardinality(Live(last.before))
    /\ \E id \in Live(entry) : id \notin Live(last.before)

(***************************************************************************)
(* C26.  Depth bound during addition: in every state of the reduction of   *)
(* the combination of two reduced numbers, no pair lies deeper than depth  *)
(* 4 from the root and every pair at depth 4 has two literal children, so  *)
(* explode never reads a nested child as a number: it never reaches the    *)
(* unreachable!() of number().                                             *)
(***************************************************************************)
SumOfReduced ==
    /\ origin = "add"
    /\ IsReduced(numbers[1])
    /\ IsReduced(numbers[2])

PairLevels(t) == {p \in TreeLevels(t) : NodeOf(t, p[1]).data = Nested}

C26_DepthBound ==
    SumOfReduced
        => /\ \A p \in PairLevels(sum) :
                 /\ p[2] <= ExplodeDepth
                 /\ p[2] = ExplodeDepth => p[1] \in LiteralDeepPairs(sum)
           /\ last.rule = "explode" => ~ExplodePanics(last.before, Unwrap(last.node))
           /\ pc # "aborted"

\* in the sum of two reduced numbers a split has made a pair at depth 4, after
\* an explode had taken one away
C26_Witness ==
    /\ SumOfReduced
    /\ pc = "reduce"
    /\ last.rule = "split"
    /\ <<Unwrap(last.node), ExplodeDepth>> \in PairLevels(sum)
    /\ \E id \in Live(entry) : id \notin Live(last.before)

(***************************************************************************)
(* C28.  Literal width during reduction: the leaves are 8-bit unsigned     *)
(* numbers, and in the reduction of the sum of two reduced numbers with    *)
(* single-digit leaves the additions of explode (neighbour + child) and    *)
(* the n + 1 of split's rounding up never exceed 255: none overflows.      *)
(***************************************************************************)
LeafNumbers(t) == {number(NodeOf(t, id).data) : id \in {x \in Live(t) :
                                                           IsNumber(NodeOf(t, x).data)}}

Capacity(t) == Cardinality(DOMAIN t.nodes)

SlotBookkeeping(t) ==
    /\ DOMAIN t.nodes = 0..(Capacity(t) - 1)
    /\ \A id \in Live(t) :
          /\ t.node_positions[id] \in DOMAIN t.nodes
          /\ node(t, id) # None
          /\ NodeOf(t, id).id = id
    /\ Cardinality(Range(t.node_positions)) = Cardinality(Live(t))
    /\ {slot \in DOMAIN t.nodes : t.nodes[slot] # None} \subseteq Range(t.node_positions)

C30_SlotBookkeeping ==
    /\ SlotBookkeeping(arena)
    /\ Capacity(arena) \in {InitialCapacity, 2 * InitialCapacity}
    /\ call.outcome = "returned"
          => /\ Live(arena) =
                    CASE call.op = "insert" -> Live(call.before) \cup {Unwrap(call.id)}
                      [] call.op = "remove" -> Live(call.before) \ {Unwrap(call.id)}
                      [] OTHER -> Live(call.before)
             /\ call.op = "insert"
                   => /\ Unwrap(call.id) \notin Live(call.before)
                      /\ NodeOf(arena, Unwrap(call.id)).data = Unwrap(call.data)
             /\ \A id \in Live(arena) \cap Live(call.before) :
                   /\ arena.node_positions[id] = call.before.node_positions[id]
                   /\ NodeOf(arena, id).data = NodeOf(call.before, id).data

\* the slot vector has doubled, and the last insert took a slot of the first
\* InitialCapacity that a remove had emptied
C30_Witness ==
    /\ Capacity(arena) = 2 * InitialCapacity
    /\ call.op = "insert"
    /\ call.outcome = "returned"
    /\ Capacity(call.before) = 2 * InitialCapacity
    /\ arena.node_positions[Unwrap(call.id)] < InitialCapacity
    /\ \E id \in Live(arena) : arena.node_positions[id] >= InitialCapacity
====
